---- MODULE Spec2Model ----
(***************************************************************************)
(* Vendor categorisation and revenue attribution of the Cashflo TOFU/BOFU  *)
(* dashboard: fiscal calendar, buyer revenue share, window aggregation and *)
(* TOFU/BOFU tiers, as implemented by src/pipeline/*.py and                *)
(* src/company_metrics.py.                                                 *)
(*                                                                         *)
(* Conventions.                                                            *)
(*   - A calendar month is an absolute month index  year*12 + (month-1).   *)
(*     The "Month" column holds first-of-month dates (DATE_TRUNC('month')).*)
(*   - pd.NA in a label column is NoLabel; NaN / SQL NULL is Null.         *)
(*   - A Python exception that leaves a function is the model value RAISED.*)
(*   - Formatted strings are sequences of characters / digits, so that two *)
(*     formatting routes can differ.                                       *)
(***************************************************************************)
EXTENDS Integers, Sequences, FiniteSets, TLC

VARIABLES
    date,     \* fiscal calendar: the date being labelled
    fy,       \* fiscal calendar: labels computed for `date`, and for the day before
    txn,      \* revenue share: one EarlyPaymentRequestInvoice row joined to its invoice
    share,    \* revenue share: values computed for `txn`
    tin,      \* tier functions: one merged row as it reaches tofu_cat / bofu_cat
    tout,     \* tier functions: labels computed for `tin`
    raw,      \* workbook: rows of the base sheet (vendor-buyer-month records)
    sheet,    \* workbook: derived sheets written by the calc steps
    co,       \* company metrics: one row of the per-company dataset
    enr,      \* company metrics: columns computed for `co` and for `ds`
    ds,       \* company metrics: the dataset given to enrich_dataframe
    run       \* calc_all.run: position, log and callback messages of one call

vars == <<date, fy, txn, share, tin, tout, raw, sheet, co, enr, ds, run>>

RAISED == "RAISED"
UNSET  == "UNSET"

----------------------------------------------------------------------------
(* Generic helpers                                                         *)

DigitChar == <<"0", "1", "2", "3", "4", "5", "6", "7", "8", "9">>

\* the value of a digit character
DigitVal(c) == CHOOSE i \in 0..9 : DigitChar[i + 1] = c

RECURSIVE Digits(_)
\* str(n) for n >= 0, as a sequence of digit characters
Digits(n) == IF n < 10 THEN <<DigitChar[n + 1]>>
             ELSE Append(Digits(n \div 10), DigitChar[(n % 10) + 1])

\* str.replace(a, b) for one-character a and b
ReplaceChar(s, a, b) == [i \in 1..Len(s) |-> IF s[i] = a THEN b ELSE s[i]]

\* format spec ":02d": zero-pad to width 2, wider numbers are kept whole
Pad2(s) == IF Len(s) < 2 THEN <<"0">> \o s ELSE s

\* the slice s[-2:]
LastTwo(s) == IF Len(s) <= 2 THEN s ELSE SubSeq(s, Len(s) - 1, Len(s))

\* a label that has not been computed, or pd.NA in a label column
NoLabel == <<>>

Max(a, b) == IF a >= b THEN a ELSE b
Min(a, b) == IF a <= b THEN a ELSE b

SetMax(S) == CHOOSE x \in S : \A y \in S : y <= x
SetMin(S) == CHOOSE x \in S : \A y \in S : x <= y

RECURSIVE SumOver(_, _)
\* sum of f[x] over the finite set S (S a subset of DOMAIN f)
SumOver(f, S) ==
    IF S = {} THEN 0
    ELSE LET x == CHOOSE y \in S : TRUE IN f[x] + SumOver(f, S \ {x})

----------------------------------------------------------------------------
(* Exact arithmetic on amounts, rates and ratios.  A value is a fraction   *)
(* n/d in lowest terms with d > 0, or the null value (SQL NULL, NaN), or   *)
(* an error (a raised exception / an aborted statement).                   *)

RECURSIVE GCD(_, _)
GCD(a, b) == IF b = 0 THEN a ELSE GCD(b, a % b)

Abs(x) == IF x < 0 THEN -x ELSE x

Num(n, d) ==
    LET s == IF d < 0 THEN -1 ELSE 1
        g == GCD(Abs(n), Abs(d))
    IN  [k |-> "num", n |-> (s * n) \div g, d |-> (s * d) \div g]

Whole(n) == [k |-> "num", n |-> n, d |-> 1]
Null    == [k |-> "null", n |-> 0, d |-> 1]
Err     == [k |-> "error", n |-> 0, d |-> 1]

IsNum(x)  == x.k = "num"
IsNull(x) == x.k = "null"
IsErr(x)  == x.k = "error"

\* an operand that is an error makes the result an error, else a null makes it null
Lift2(a, b, v) ==
    IF IsErr(a) \/ IsErr(b) THEN Err
    ELSE IF IsNull(a) \/ IsNull(b) THEN Null
    ELSE v

RSub(a, b) == Lift2(a, b, Num(a.n * b.d - b.n * a.d, a.d * b.d))
RAdd(a, b) == Lift2(a, b, Num(a.n * b.d + b.n * a.d, a.d * b.d))

\* product, cancelling across the fractions before multiplying
RMul(a, b) ==
    Lift2(a, b,
          LET g1 == GCD(Abs(a.n), b.d)
              g2 == GCD(Abs(b.n), a.d)
          IN  Num((a.n \div g1) * (b.n \div g2), (a.d \div g2) * (b.d \div g1)))

\* comparisons of two numbers (callers decide what a null compares to)
RLt(a, b) == a.n * b.d < b.n * a.d
RLe(a, b) == a.n * b.d <= b.n * a.d
REq(a, b) == a.n * b.d = b.n * a.d

\* division of two numbers with a non-zero divisor
RQuot(a, b) == RMul(a, Num(b.d, b.n))

----------------------------------------------------------------------------
(* Fiscal calendar                                                         *)

IsLeap(y) == (y % 4 = 0 /\ y % 100 # 0) \/ y % 400 = 0

DaysInMonth(y, m) ==
    IF m = 2 THEN (IF IsLeap(y) THEN 29 ELSE 28)
    ELSE IF m \in {4, 6, 9, 11} THEN 30 ELSE 31

\* the calendar day after d
NextDate(d) ==
    IF d.day < DaysInMonth(d.year, d.month) THEN [d EXCEPT !.day = @ + 1]
    ELSE IF d.month < 12 THEN [d EXCEPT !.month = @ + 1, !.day = 1]
    ELSE [year |-> d.year + 1, month |-> 1, day |-> 1]

\* calculations_2.fy_label: f"FY{(d.year + 1 if d.month >= 4 else d.year) % 100:02d}"
fy_label_c2(d) ==
    <<"F", "Y">> \o Pad2(Digits((IF d.month >= 4 THEN d.year + 1 ELSE d.year) % 100))

\* calculations_3.fy_label (same expression, one line)
fy_label_c3(d) ==
    <<"F", "Y">> \o Pad2(Digits((IF d.month >= 4 THEN d.year + 1 ELSE d.year) % 100))

\* variant of _fy_label whose year rolls over in May instead of April
fy_label_cm_late(ts) ==
    LET yr == IF ts.month > 4 THEN ts.year + 1 ELSE ts.year
    IN  <<"F", "Y">> \o LastTwo(Digits(yr))

\* company_metrics._fy_label: yr = ...; f"FY{str(yr)[-2:]}"
fy_label_cm(ts) ==
    LET yr == IF ts.month >= 4 THEN ts.year + 1 ELSE ts.year
    IN  <<"F", "Y">> \o LastTwo(Digits(yr))

\* calculations_2.fy_quarter: if / elif chain on d.month
fy_quarter_c2(d) ==
    IF d.month \in {4, 5, 6} THEN "Q1"
    ELSE IF d.month \in {7, 8, 9} THEN "Q2"
    ELSE IF d.month \in {10, 11, 12} THEN "Q3"
    ELSE "Q4"

\* calculations_3.fy_quarter: table lookup [...][d.month-1]
QuarterTable == <<"Q4", "Q1", "Q1", "Q1", "Q2", "Q2", "Q2", "Q3", "Q3", "Q3", "Q4", "Q4">>

fy_quarter_c3(d) == QuarterTable[(d.month - 1) + 1]


----------------------------------------------------------------------------
(* Revenue attribution: the SQL CASE of RequestSummary (data_pull.py and   *)
(* data_pull_new.py hold the same text) and invoice_data_pull.buyer_share. *)
(* Money is counted in thousands, so the breakpoints 150,000,000 and       *)
(* 250,000,000 are 150000 and 250000.                                      *)

TierLow  == 150000000 \div 1000
TierHigh == 250000000 \div 1000

\* SQL "/": division by zero aborts the statement
SqlDiv(a, b) ==
    IF IsErr(a) \/ IsErr(b) THEN Err
    ELSE IF IsNull(a) \/ IsNull(b) THEN Null
    ELSE IF b.n = 0 THEN Err
    ELSE RQuot(a, b)

\* SQL comparison used as a WHEN condition: a null operand is "not true"
SqlLt(a, b) == IsNum(a) /\ IsNum(b) /\ RLt(a, b)
SqlGt(a, b) == IsNum(a) /\ IsNum(b) /\ RLt(b, a)
SqlBetween(a, lo, hi) == IsNum(a) /\ RLe(lo, a) /\ RLe(a, hi)

\* GREATEST(x, 0): nulls are ignored, an error propagates
SqlGreatest0(x) ==
    IF IsErr(x) THEN Err
    ELSE IF IsNull(x) THEN Whole(0)
    ELSE IF RLt(x, Whole(0)) THEN Whole(0) ELSE x

\* ((apr - base) * amount * daysAdvanced) / 36500
SqlSpread(t, base) ==
    SqlDiv(RMul(RMul(RSub(t.apr, base), t.amt), t.days), Whole(36500))

\* the CASE expression, WHEN by WHEN in the order of the text
SqlShareCase(t) ==
    IF t.bidNull THEN Whole(0)
    ELSE IF t.bid \in {128999, 11111, 24814, 163022} THEN
        RMul(SqlSpread(t, Whole(8)),
             IF SqlLt(t.amt, Whole(TierLow)) THEN Num(125, 1000)
             ELSE IF SqlBetween(t.amt, Whole(TierLow), Whole(TierHigh)) THEN Num(15, 100)
             ELSE Num(175, 1000))
    ELSE IF t.bid \in {448, 9916, 158109} THEN RMul(t.ed, Num(875, 10000))
    ELSE IF t.bid = 586 THEN RMul(t.ed, Num(95, 1000))
    ELSE IF t.bid \in {10963, 11326, 11, 246800, 275674} THEN RMul(t.ed, Num(10, 100))
    ELSE IF t.bid \in {24217, 136067, 4752, 154673} THEN RMul(t.ed, Num(15, 100))
    ELSE IF t.bid = 379 THEN
        RMul(SqlDiv(RMul(t.rate, t.amt), Whole(100)), Num(35, 100))
    ELSE IF t.bid \in {22483, 199095} THEN RMul(t.ed, Num(14, 100))
    ELSE IF t.bid = 368 THEN RMul(t.ed, Num(13, 100))
    ELSE IF t.bid = 193694 THEN RMul(t.ed, Num(18, 100))
    ELSE IF t.bid \in {66, 452, 546, 431} THEN RMul(SqlSpread(t, Whole(7)), Num(20, 100))
    ELSE IF t.bid = 11323 THEN RMul(SqlSpread(t, Num(65, 10)), Num(16, 100))
    ELSE IF t.bid = 8672 THEN RMul(SqlSpread(t, Whole(8)), Num(10, 100))
    ELSE IF t.bid = 1437 THEN RMul(SqlSpread(t, Num(65, 10)), Num(20, 100))
    ELSE IF t.bid = 153 THEN RMul(SqlSpread(t, Whole(9)), Num(35, 100))
    ELSE IF t.bid = 55 THEN RMul(SqlSpread(t, Num(734, 100)), Num(11, 100))
    ELSE IF t.bid = 8933 THEN RMul(SqlSpread(t, Num(85, 10)), Num(20, 100))
    ELSE IF t.bid \in {196860, 196029} THEN RMul(SqlSpread(t, Whole(8)), Num(50, 100))
    ELSE IF t.bid = 38 THEN RMul(SqlSpread(t, Whole(10)), Num(15, 100))
    ELSE IF t.bid = 2795 THEN
        RMul(RMul(t.ed, SqlDiv(t.estMinusDue, t.estMinusCleared)), Num(25, 100))
    ELSE IF t.bid = 11625 THEN
        (IF SqlGt(RSub(t.apr, RMul(t.apr, Num(14, 100))), Whole(10))
         THEN RMul(t.ed, Num(14, 100))
         ELSE SqlSpread(t, Whole(10)))
    ELSE IF t.bid = 24505 THEN
        (IF SqlLt(SqlDiv(t.apr, Num(115, 100)), Num(1025, 100))
         THEN SqlDiv(RMul(t.ed, RSub(t.apr, Num(1025, 100))), Whole(100))
         ELSE RMul(t.ed, Num(15, 100)))
    ELSE IF t.bid = 688 THEN
        (IF SqlLt(t.apr, Whole(15)) THEN RMul(t.ed, Num(12, 100))
         ELSE RMul(t.ed, Num(15, 100)))
    ELSE Whole(0)

\* the summand of "Buyer Revenue Share": GREATEST(CASE ... END, 0)
SqlBuyerShare(t) == SqlGreatest0(SqlShareCase(t))

\* Python "x or 0" on a number (0 is falsy and is replaced by 0)
Or0(x) == IF IsNum(x) /\ x.n = 0 THEN Whole(0) ELSE x

\* variant of the flats dict with buyer 10963 filed under 15% instead of 10%
PyFlatsMisfiled ==
    << <<Num(875, 10000), {448, 9916, 158109}>>,
       <<Num(95, 1000),   {586}>>,
       <<Num(10, 100),    {11326, 11, 246800, 275674}>>,
       <<Num(15, 100),    {24217, 136067, 4752, 154673, 10963}>>,
       <<Num(14, 100),    {22483, 199095}>>,
       <<Num(13, 100),    {368}>>,
       <<Num(18, 100),    {193694}>>,
       <<Num(20, 100),    {8933}>> >>

\* the flats dict, in insertion order: <<pct, ids>>
PyFlats == << <<Num(875, 10000), {448, 9916, 158109}>>,
              <<Num(95, 1000),   {586}>>,
              <<Num(10, 100),    {10963, 11326, 11, 246800, 275674}>>,
              <<Num(15, 100),    {24217, 136067, 4752, 154673}>>,
              <<Num(14, 100),    {22483, 199095}>>,
              <<Num(13, 100),    {368}>>,
              <<Num(18, 100),    {193694}>>,
              <<Num(20, 100),    {8933}>> >>

\* the spreads dict, in insertion order: <<ids, base, share>>
PySpreads == << <<{66, 452, 546, 431}, Whole(7),       Num(20, 100)>>,
                <<{11323},             Num(65, 10),    Num(16, 100)>>,
                <<{8672},              Whole(8),       Num(10, 100)>>,
                <<{1437},              Num(65, 10),    Num(20, 100)>>,
                <<{153},               Whole(9),       Num(35, 100)>>,
                <<{55},                Num(734, 100),  Num(11, 100)>>,
                <<{196860, 196029},    Whole(8),       Num(50, 100)>>,
                <<{38},                Whole(10),      Num(15, 100)>> >>

\* first entry of a dict (as a sequence) whose id set, at position col of the
\* entry, holds bid; 0 if none
FirstMatch(table, col, bid) ==
    LET hits == {i \in 1..Len(table) : bid \in table[i][col]}
    IN  IF hits = {} THEN 0 ELSE SetMin(hits)

\* buyer_share, spread branch: ((apr-base)*amt*days/36500)*share
PySpreadValue(apr, amt, days, base, frac) ==
    RMul(RQuot(RMul(RMul(RSub(apr, base), amt), days), Whole(36500)), frac)

\* variant of buyer_share that falls off the end (returns None) for a buyer of
\* no rule
buyer_share_no_default(r) ==
    LET bid  == IF r.bidNull THEN 0 ELSE r.bid
        ed   == Or0(r.ed)
        amt  == Or0(r.amt)
        apr  == Or0(r.apr)
        days == Or0(r.days)
        rate == Or0(r.rate)
        fi   == FirstMatch(PyFlats, 2, bid)
        si   == FirstMatch(PySpreads, 1, bid)
    IN  IF fi # 0 THEN RMul(ed, PyFlats[fi][1])
        ELSE IF bid = 688 THEN
            RMul(ed, IF RLt(apr, Whole(15)) THEN Num(12, 100) ELSE Num(15, 100))
        ELSE IF bid = 379 THEN
            RMul(RMul(RQuot(rate, Whole(100)), amt), Num(35, 100))
        ELSE IF si # 0 THEN
            PySpreadValue(apr, amt, days, PySpreads[si][2], PySpreads[si][3])
        ELSE IF bid \in {24814, 11111, 128999} THEN
            LET net_apr == RSub(apr, Whole(8))
                pct == IF RLt(amt, Whole(TierLow)) THEN Num(125, 1000)
                       ELSE IF RLt(amt, Whole(TierHigh)) THEN Num(15, 100)
                       ELSE Num(175, 1000)
            IN  IF RLe(net_apr, Whole(0)) THEN Whole(0)
                ELSE RQuot(RMul(RMul(pct, net_apr), amt), Whole(100))
        ELSE Null

\* invoice_data_pull.buyer_share(r)
buyer_share(r) ==
    LET bid  == IF r.bidNull THEN 0 ELSE r.bid
        ed   == Or0(r.ed)
        amt  == Or0(r.amt)
        apr  == Or0(r.apr)
        days == Or0(r.days)
        rate == Or0(r.rate)
        fi   == FirstMatch(PyFlats, 2, bid)
        si   == FirstMatch(PySpreads, 1, bid)
    IN  IF fi # 0 THEN RMul(ed, PyFlats[fi][1])
        ELSE IF bid = 688 THEN
            RMul(ed, IF RLt(apr, Whole(15)) THEN Num(12, 100) ELSE Num(15, 100))
        ELSE IF bid = 379 THEN
            RMul(RMul(RQuot(rate, Whole(100)), amt), Num(35, 100))
        ELSE IF si # 0 THEN
            PySpreadValue(apr, amt, days, PySpreads[si][2], PySpreads[si][3])
        ELSE IF bid \in {24814, 11111, 128999} THEN
            LET net_apr == RSub(apr, Whole(8))
                pct == IF RLt(amt, Whole(TierLow)) THEN Num(125, 1000)
                       ELSE IF RLt(amt, Whole(TierHigh)) THEN Num(15, 100)
                       ELSE Num(175, 1000)
            IN  IF RLe(net_apr, Whole(0)) THEN Whole(0)
                ELSE RQuot(RMul(RMul(pct, net_apr), amt), Whole(100))
        ELSE Whole(0)

----------------------------------------------------------------------------
(* The base sheet.  A row is one vendor-month record                        *)
(*   [pan, month, tofu, tofuNull, bofu]                                     *)
(* of the columns "PAN", "Month", "TOFU (in lacs)", "BOFU (in lacs)"; every *)
(* supplier of the model trades with one buyer, so the vendor-buyer groups  *)
(* of build_quarter_metrics are the vendor groups.  An empty TOFU cell      *)
(* (NaN after read_excel, NULL in the query) is tofuNull = TRUE with        *)
(* tofu = 0: sum() and SUM() skip it, so it adds 0 to every sum.            *)

\* the first-of-month date of a month index
DateOf(m) == [year |-> m \div 12, month |-> (m % 12) + 1, day |-> 1]

RECURSIVE SumTofu(_)
SumTofu(S) ==
    IF S = {} THEN 0
    ELSE LET r == CHOOSE x \in S : TRUE IN r.tofu + SumTofu(S \ {r})

RECURSIVE SumBofu(_)
SumBofu(S) ==
    IF S = {} THEN 0
    ELSE LET r == CHOOSE x \in S : TRUE IN r.bofu + SumBofu(S \ {r})

RECURSIVE DaysBetween(_, _)
\* (Timestamp(b) - Timestamp(a)).days for first-of-month dates a <= b
DaysBetween(a, b) ==
    IF a >= b THEN 0
    ELSE DaysInMonth(DateOf(a).year, DateOf(a).month) + DaysBetween(a + 1, b)

PanSet(R)     == {r.pan : r \in R}
RowsOf(R, v)  == {r \in R : r.pan = v}

\* raw["Month"].max()
last_month(R) == SetMax({r.month : r \in R})

\* cuts[lbl] = last_month - relativedelta(months=N)
Cutoff(R, N) == last_month(R) - N

\* "Q1".."Q4" -> 1..4, the order of the label strings
QuarterRank(q) == IF q = "Q1" THEN 1 ELSE IF q = "Q2" THEN 2 ELSE IF q = "Q3" THEN 3 ELSE 4

\* position of an "FYdd?Qn" label in sort_index(axis=1): string order
LabelRank(l) == DigitVal(l[3]) * 100 + DigitVal(l[4]) * 10 + QuarterRank(l[6])

\* a number compared with an integer threshold; NaN compares False
GeInt(x, n) == IsNum(x) /\ x.n >= n * x.d

\* a ratio compared with the decimal p/100; NaN compares False
GePct(x, p) == IsNum(x) /\ x.n * 100 >= p * x.d
GtZero(x)   == IsNum(x) /\ x.n > 0
EqZero(x)   == IsNum(x) /\ x.n = 0

----------------------------------------------------------------------------
(* build_supplier_pivot (calculations_3.py)                                *)

\* raw["FYQ"] = raw["FY"] + " " + raw["Q"]
Fyq3(m) == fy_label_c3(DateOf(m)) \o <<" ">> \o <<fy_quarter_c3(DateOf(m))>>

\* latest_fyq = raw.loc[raw["Month"].idxmax(), "FYQ"]
latest_fyq3(R) == Fyq3(last_month(R))

\* supplier_df: one row per (PAN, Month), the metrics summed
SupplierMonths(R, v) == {r.month : r \in RowsOf(R, v)}
SupTofu(R, v, m) == SumTofu({r \in RowsOf(R, v) : r.month = m})
SupBofu(R, v, m) == SumBofu({r \in RowsOf(R, v) : r.month = m})

\* supplier_df[supplier_df["Month"] >= cutoff], the months of one supplier
WindowMonths3(R, v, N) == {m \in SupplierMonths(R, v) : m >= Cutoff(R, N)}

\* "TOFU (in lacs) count N month": non_zero.sum() per supplier, NaN after the
\* left merge when the supplier has no row in the window
Count3(R, v, N) ==
    LET ms == WindowMonths3(R, v, N)
    IN  IF ms = {} THEN Null
        ELSE Whole(Cardinality({m \in ms : SupTofu(R, v, m) # 0}))

\* "Acc Rate N month": BOFU sum / TOFU sum, inf -> 0, NaN -> 0; NaN after the
\* left merge when the supplier has no row in the window
Acc3(R, v, N) ==
    LET ms == WindowMonths3(R, v, N)
        rs == {r \in RowsOf(R, v) : r.month \in ms}
    IN  IF ms = {} THEN Null
        ELSE IF SumTofu(rs) = 0 THEN Whole(0)
        ELSE Num(SumBofu(rs), SumTofu(rs))

\* the FYQ columns of one metric in which the supplier's cell is not NaN and not 0
NonZeroQuarters3(R, v, IsTofu) ==
    { l \in {Fyq3(m) : m \in SupplierMonths(R, v)} :
        LET cell == {r \in RowsOf(R, v) : Fyq3(r.month) = l}
        IN  (IF IsTofu THEN SumTofu(cell) ELSE SumBofu(cell)) # 0 }

\* "First <metric> Quarter": the first such column in sorted order, else pd.NA
FirstQuarter3(R, v, IsTofu) ==
    LET qs == NonZeroQuarters3(R, v, IsTofu)
    IN  IF qs = {} THEN NoLabel
        ELSE CHOOSE l \in qs : \A k \in qs : LabelRank(l) <= LabelRank(k)

\* tofu_cat(first_qtr, cnt, hi, mid) with the captured latest_fyq
tofu_cat(first_qtr, cnt, hi, mid, latest_fyq) ==
    IF first_qtr = NoLabel THEN "TOFU Low"
    ELSE IF first_qtr = latest_fyq THEN "TOFU New"
    ELSE IF GeInt(cnt, hi) THEN "TOFU Regular"
    ELSE IF GeInt(cnt, mid) THEN "TOFU Medium"
    ELSE "TOFU Low"

\* months with TOFU > 0 of one supplier in supplier_df
TofuMonths3(R, v) == {m \in SupplierMonths(R, v) : SupTofu(R, v, m) > 0}

RECURSIVE Largest(_, _)
\* nlargest(k) of a set of months
Largest(S, k) ==
    IF S = {} \/ k = 0 THEN {}
    ELSE {SetMax(S)} \cup Largest(S \ {SetMax(S)}, k - 1)

\* last_three_tofu.get((PAN, Supplier Name)): None when the supplier has no
\* TOFU month; otherwise the supplier's entries of the Series, which pandas
\* returns as a Series when the (PAN, Supplier Name) index has duplicates and
\* as the single Timestamp itself when every key of the index occurs once
last_three_tofu_get(R, v) ==
    LET ms == Largest(TofuMonths3(R, v), 3)
        unique == \A w \in PanSet(R) : Cardinality(TofuMonths3(R, w)) <= 1
    IN  IF ms = {} THEN [kind |-> "none", months |-> {}]
        ELSE IF unique THEN [kind |-> "scalar", months |-> ms]
        ELSE [kind |-> "series", months |-> ms]

\* last_bofu_month.get(key): the latest month with BOFU > 0, as a set of <= 1
last_bofu_month_get(R, v) ==
    LET ms == {m \in SupplierMonths(R, v) : SupBofu(R, v, m) > 0}
    IN  IF ms = {} THEN {} ELSE {SetMax(ms)}

\* tofu_instance_count.get(key, 0)
tofu_instance_count_get(R, v) == Cardinality(TofuMonths3(R, v))

\* variant of bofu_cat without the never-transacted branch
bofu_cat_no_never(first_qtr, acc, last_bofu_qtr, n_tofu_instances, last_three_tofu_months, lastMonth, latest_fyq) ==
    IF first_qtr # NoLabel /\ first_qtr = latest_fyq THEN "Txn New"
    ELSE IF GePct(acc, 80) THEN "Txn High"
    ELSE IF GePct(acc, 50) THEN "Txn Med"
    ELSE IF GtZero(acc) THEN "Txn Low"
    ELSE IF n_tofu_instances >= 2 THEN "At-risk of Churn"
    ELSE "Not Txn"

\* bofu_cat(first_qtr, acc, last_bofu_qtr, n_tofu_instances,
\*          last_three_tofu_months) with the captured last_month and latest_fyq
\* (the en dash of the two "Not Txn" labels is written as a hyphen)
bofu_cat(first_qtr, acc, last_bofu_qtr, n_tofu_instances, last_three_tofu_months, lastMonth, latest_fyq) ==
    IF first_qtr = NoLabel THEN
        \* 0) never transacted
        IF n_tofu_instances = 0 THEN "Not Txn - Old TOFU"
        ELSE IF last_three_tofu_months.kind = "scalar" THEN RAISED  \* Timestamp.max is not callable
        ELSE IF last_three_tofu_months.kind = "none" THEN RAISED    \* None has no .max
        ELSE IF SetMax(last_three_tofu_months.months) >= lastMonth - 8
             THEN "Not Txn - New TOFU"
        ELSE "Not Txn - Old TOFU"
    \* 1) BOFU happened in latest FYQ
    ELSE IF first_qtr = latest_fyq THEN "Txn New"
    \* 2) normal tiers
    ELSE IF GePct(acc, 80) THEN "Txn High"
    ELSE IF GePct(acc, 50) THEN "Txn Med"
    ELSE IF GtZero(acc) THEN
        IF last_bofu_qtr # {} THEN
            \* months_since_last_bofu = (last_month - last_bofu_qtr).days / 30 > 12
            IF DaysBetween(SetMax(last_bofu_qtr), lastMonth) > 12 * 30
            THEN "Churned >1 yr" ELSE "Churned <1 yr"
        ELSE IF n_tofu_instances >= 2 /\ EqZero(acc) THEN "At-risk of Churn"
        ELSE "Txn Low"
    ELSE "Not Txn"

\* one row of merged with its six category columns
SupplierRow(R, v) ==
    LET ft == FirstQuarter3(R, v, TRUE)
        fb == FirstQuarter3(R, v, FALSE)
        lq == latest_fyq3(R)
        B(N) == bofu_cat(fb, Acc3(R, v, N), last_bofu_month_get(R, v),
                         tofu_instance_count_get(R, v), last_three_tofu_get(R, v),
                         last_month(R), lq)
    IN  [firstTofu |-> ft, firstBofu |-> fb,
         tofu18 |-> tofu_cat(ft, Count3(R, v, 18), 13, 7, lq),
         tofu12 |-> tofu_cat(ft, Count3(R, v, 12), 9, 5, lq),
         tofu6  |-> tofu_cat(ft, Count3(R, v, 6), 5, 3, lq),
         cnt18 |-> Count3(R, v, 18), cnt12 |-> Count3(R, v, 12), cnt6 |-> Count3(R, v, 6),
         acc18 |-> Acc3(R, v, 18), acc12 |-> Acc3(R, v, 12), acc6 |-> Acc3(R, v, 6),
         bofu18 |-> B(18), bofu12 |-> B(12), bofu6 |-> B(6)]

\* the sheet "Quaterly Metrics wo duplicates", or the exception that ends the call
build_supplier_pivot(R) ==
    LET rows == [v \in PanSet(R) |-> SupplierRow(R, v)]
        bad  == \E v \in PanSet(R) : RAISED \in {rows[v].bofu18, rows[v].bofu12, rows[v].bofu6}
    IN  [step |-> "supplier", status |-> IF bad THEN "raised" ELSE "ok", rows |-> rows]

----------------------------------------------------------------------------
(* build_quarter_metrics (calculations_2.py)                               *)

\* df["FYQ"] = df["FY"] + " " + df["Q"]
Fyq2(m) == fy_label_c2(DateOf(m)) \o <<" ">> \o <<fy_quarter_c2(DateOf(m))>>

\* latest_fyq = df.loc[df["Month"].idxmax(), "FYQ"]
latest_fyq2(R) == Fyq2(last_month(R))

\* the pivot column of an FYQ is renamed f"{m}__{str(col).replace(' ', '_')}";
\* c.split("__")[1] gives this part back
ColumnQuarter2(l) == ReplaceChar(l, " ", "_")

\* df[df["Month"] >= cutoff], the rows of one group
WindowRows2(R, v, N) == {r \in RowsOf(R, v) : r.month >= Cutoff(R, N)}

\* "TOFU (in lacs) count N month": (s != 0).sum() over the rows of the group;
\* NaN != 0 is True
Count2(R, v, N) ==
    LET rs == WindowRows2(R, v, N)
    IN  IF rs = {} THEN Null
        ELSE Whole(Cardinality({r \in rs : r.tofuNull \/ r.tofu # 0}))

\* "Acc Rate N month": (bofu / tofu).replace([inf, -inf], 0).fillna(0)
Acc2(R, v, N) ==
    LET rs == WindowRows2(R, v, N)
    IN  IF rs = {} THEN Null
        ELSE IF SumTofu(rs) = 0 THEN Whole(0)
        ELSE Num(SumBofu(rs), SumTofu(rs))

\* "First <metric> Quarter" of one group, from the renamed columns
FirstQuarter2(R, v, IsTofu) ==
    LET qs == { l \in {Fyq2(r.month) : r \in RowsOf(R, v)} :
                  LET cell == {r \in RowsOf(R, v) : Fyq2(r.month) = l}
                  IN  (IF IsTofu THEN SumTofu(cell) ELSE SumBofu(cell)) # 0 }
    IN  IF qs = {} THEN NoLabel
        ELSE ColumnQuarter2(CHOOSE l \in qs : \A k \in qs : LabelRank(l) <= LabelRank(k))

\* a Python call of bofu_cat with positional arguments: the def takes five,
\* any other number raises TypeError before the body runs
bofu_cat_call(args, lastMonth, latest_fyq) ==
    IF Len(args) # 5 THEN RAISED
    ELSE bofu_cat(args[1], args[2], args[3], args[4], args[5], lastMonth, latest_fyq)

\* one row of merged: the TOFU categories, then the BOFU categories
QuarterRow(R, v) ==
    LET ft == FirstQuarter2(R, v, TRUE)
        fb == FirstQuarter2(R, v, FALSE)
        lq == latest_fyq2(R)
        B(N) == bofu_cat_call(<<fb, Acc2(R, v, N)>>, last_month(R), lq)
    IN  [firstTofu |-> ft, firstBofu |-> fb,
         tofu18 |-> tofu_cat(ft, Count2(R, v, 18), 13, 7, lq),
         tofu12 |-> tofu_cat(ft, Count2(R, v, 12), 9, 5, lq),
         tofu6  |-> tofu_cat(ft, Count2(R, v, 6), 5, 3, lq),
         cnt18 |-> Count2(R, v, 18), cnt12 |-> Count2(R, v, 12), cnt6 |-> Count2(R, v, 6),
         acc18 |-> Acc2(R, v, 18), acc12 |-> Acc2(R, v, 12), acc6 |-> Acc2(R, v, 6),
         bofu18 |-> B(18), bofu12 |-> B(12), bofu6 |-> B(6)]

\* the sheet "Quaterly Metrics", or the exception that ends the call
build_quarter_metrics(R) ==
    LET rows == [v \in PanSet(R) |-> QuarterRow(R, v)]
        bad  == \E v \in PanSet(R) : RAISED \in {rows[v].bofu18, rows[v].bofu12, rows[v].bofu6}
    IN  [step |-> "quarter", status |-> IF bad THEN "raised" ELSE "ok", rows |-> rows]

----------------------------------------------------------------------------
(* VendorMonthly / VendorStats / VendorCategories of data_pull.py.  The    *)
(* rows of VendorMonthly are the vendor-months of the base data, TOFU and  *)
(* BOFU summed; every window below belongs to one row (vendor v, month m). *)

\* RANGE BETWEEN INTERVAL 'k months' PRECEDING AND CURRENT ROW
RangeMonths(R, v, m, k) == {x \in SupplierMonths(R, v) : m - k <= x /\ x <= m}

\* ROWS BETWEEN k PRECEDING AND CURRENT ROW
RowsPreceding(R, v, m, k) == Largest({x \in SupplierMonths(R, v) : x <= m}, k + 1)

RECURSIVE SumMonths(_, _, _, _)
\* SUM(vm."TOFU") or SUM(vm."BOFU") over a frame of rows
SumMonths(R, v, ms, IsTofu) ==
    IF ms = {} THEN 0
    ELSE LET x == CHOOSE y \in ms : TRUE
         IN  (IF IsTofu THEN SupTofu(R, v, x) ELSE SupBofu(R, v, x))
             + SumMonths(R, v, ms \ {x}, IsTofu)

\* SUM(CASE WHEN vm."TOFU" > 0 THEN 1 ELSE 0 END) over a frame, same for BOFU
CountPositive(R, v, ms, IsTofu) ==
    Cardinality({x \in ms : (IF IsTofu THEN SupTofu(R, v, x) ELSE SupBofu(R, v, x)) > 0})

\* data_pull.py tofu_cat_6m
sql_tofu_cat_6m(cnt) ==
    IF cnt >= 5 THEN "Regular"
    ELSE IF cnt >= 3 /\ cnt <= 4 THEN "Sporadic"
    ELSE IF cnt >= 1 /\ cnt <= 2 THEN "Low"
    ELSE "None"

\* data_pull.py tofu_cat_12m
sql_tofu_cat_12m(cnt) ==
    IF cnt >= 9 THEN "Regular"
    ELSE IF cnt >= 5 /\ cnt <= 8 THEN "Sporadic"
    ELSE IF cnt >= 1 /\ cnt <= 4 THEN "Low"
    ELSE "None"

\* data_pull_new.py tofu_cat_6m; firstIsEnd: the vendor's first TOFU month is
\* window_end_month (and not before window_start)
sqlnew_tofu_cat_6m(firstIsEnd, cnt) ==
    IF firstIsEnd THEN "TOFU New"
    ELSE IF cnt >= 5 THEN "Regular"
    ELSE IF cnt >= 3 /\ cnt <= 4 THEN "Sporadic"
    ELSE IF cnt >= 1 /\ cnt <= 2 THEN "Low"
    ELSE "None"

\* data_pull_new.py tofu_cat_12m
sqlnew_tofu_cat_12m(firstIsEnd, cnt) ==
    IF firstIsEnd THEN "TOFU New"
    ELSE IF cnt >= 10 THEN "Regular"
    ELSE IF cnt >= 6 /\ cnt <= 9 THEN "Sporadic"
    ELSE IF cnt >= 1 /\ cnt <= 5 THEN "Low"
    ELSE "None"

\* bofu_cat_6m (k = 5) and bofu_cat_12m (k = 11)
sql_bofu_cat(R, v, m, k) ==
    LET win   == RangeMonths(R, v, m, k)
        sumT  == SumMonths(R, v, win, TRUE)
        sumB  == SumMonths(R, v, win, FALSE)
        \* sum_bofu_amt::numeric / NULLIF(sum_tofu_amt, 0)
        ratio == IF sumT = 0 THEN Null ELSE Num(sumB, sumT)
        last3 == RowsPreceding(R, v, m, 2)
        last2 == RowsPreceding(R, v, m, 1)
    IN  IF CountPositive(R, v, win, FALSE) = 0 THEN "Never Transacted"
        ELSE IF CountPositive(R, v, last3, TRUE) = 3
                /\ CountPositive(R, v, last3, FALSE) = 0 THEN "Churned"
        ELSE IF CountPositive(R, v, last2, TRUE) = 2
                /\ CountPositive(R, v, last2, FALSE) = 0 THEN "At Risk"
        ELSE IF GePct(ratio, 80) THEN "High"
        ELSE IF GePct(ratio, 50) THEN "Med"
        ELSE IF GtZero(ratio) THEN "Low"
        ELSE "Never Transacted"

\* one row of VendorCategories
VendorCategoryRow(R, v, m) ==
    [cnt6   |-> CountPositive(R, v, RangeMonths(R, v, m, 5), TRUE),
     cnt12  |-> CountPositive(R, v, RangeMonths(R, v, m, 11), TRUE),
     tofu6  |-> sql_tofu_cat_6m(CountPositive(R, v, RangeMonths(R, v, m, 5), TRUE)),
     tofu12 |-> sql_tofu_cat_12m(CountPositive(R, v, RangeMonths(R, v, m, 11), TRUE)),
     bofu6  |-> sql_bofu_cat(R, v, m, 5),
     bofu12 |-> sql_bofu_cat(R, v, m, 11)]

\* VendorCategories: one row per vendor and month
VendorCategories(R) ==
    [step |-> "sql", status |-> "ok",
     rows |-> [k \in {<<r.pan, r.month>> : r \in R} |-> VendorCategoryRow(R, k[1], k[2])]]

----------------------------------------------------------------------------
(* build_month_pivot (calculations_1.py), for the metrics "TOFU (in lacs)"  *)
(* and "BOFU (in lacs)" of the base sheet                                   *)

\* the pivot columns of one metric: columns="Month"
MonthsOf(R) == {r.month : r \in R}

\* pivot_table(..., values=m, aggfunc="sum"): a vendor without a row in a
\* month has an empty cell; the sum of a group skips empty amounts
PivotTofu(R, v, m) ==
    LET g == {r \in RowsOf(R, v) : r.month = m}
    IN  IF g = {} THEN Null ELSE Whole(SumTofu(g))

PivotBofu(R, v, m) ==
    LET g == {r \in RowsOf(R, v) : r.month = m}
    IN  IF g = {} THEN Null ELSE Whole(SumBofu(g))

RECURSIVE SumCells(_, _)
\* merged.filter(like=f"{m}__").sum(axis=1): the cells of the row, empty ones skipped
SumCells(cells, S) ==
    IF S = {} THEN Whole(0)
    ELSE LET x == CHOOSE y \in S : TRUE
         IN  IF IsNull(cells[x]) THEN SumCells(cells, S \ {x})
             ELSE RAdd(cells[x], SumCells(cells, S \ {x}))

\* the metric list of build_month_pivot
metrics ==
    <<"TOFU (in lacs)", "BOFU (in lacs)", "Buyer Revenue Share",
      "Platform Fee (in lacs)", "Effective Discount (in lacs)",
      "Days Advanced", "Max Days Advanced", "APR",
      "Wtd Credit Period- Calculated", "Wtd Max Days-Calculated",
      "Wtd Act Days-Calculated", "Wtd APR">>

\* a metric name, character by character
MetricChars(m) ==
    IF m = "TOFU (in lacs)" THEN
        <<"T", "O", "F", "U", " ", "(", "i", "n", " ", "l", "a", "c",
          "s", ")">>
    ELSE IF m = "BOFU (in lacs)" THEN
        <<"B", "O", "F", "U", " ", "(", "i", "n", " ", "l", "a", "c",
          "s", ")">>
    ELSE IF m = "Buyer Revenue Share" THEN
        <<"B", "u", "y", "e", "r", " ", "R", "e", "v", "e", "n", "u",
          "e", " ", "S", "h", "a", "r", "e">>
    ELSE IF m = "Platform Fee (in lacs)" THEN
        <<"P", "l", "a", "t", "f", "o", "r", "m", " ", "F", "e", "e",
          " ", "(", "i", "n", " ", "l", "a", "c", "s", ")">>
    ELSE IF m = "Effective Discount (in lacs)" THEN
        <<"E", "f", "f", "e", "c", "t", "i", "v", "e", " ", "D", "i",
          "s", "c", "o", "u", "n", "t", " ", "(", "i", "n", " ", "l",
          "a", "c", "s", ")">>
    ELSE IF m = "Days Advanced" THEN
        <<"D", "a", "y", "s", " ", "A", "d", "v", "a", "n", "c", "e",
          "d">>
    ELSE IF m = "Max Days Advanced" THEN
        <<"M", "a", "x", " ", "D", "a", "y", "s", " ", "A", "d", "v",
          "a", "n", "c", "e", "d">>
    ELSE IF m = "APR" THEN
        <<"A", "P", "R">>
    ELSE IF m = "Wtd Credit Period- Calculated" THEN
        <<"W", "t", "d", " ", "C", "r", "e", "d", "i", "t", " ", "P",
          "e", "r", "i", "o", "d", "-", " ", "C", "a", "l", "c", "u",
          "l", "a", "t", "e", "d">>
    ELSE IF m = "Wtd Max Days-Calculated" THEN
        <<"W", "t", "d", " ", "M", "a", "x", " ", "D", "a", "y", "s",
          "-", "C", "a", "l", "c", "u", "l", "a", "t", "e", "d">>
    ELSE IF m = "Wtd Act Days-Calculated" THEN
        <<"W", "t", "d", " ", "A", "c", "t", " ", "D", "a", "y", "s",
          "-", "C", "a", "l", "c", "u", "l", "a", "t", "e", "d">>
    ELSE
        <<"W", "t", "d", " ", "A", "P", "R">>

Digit(n) == <<"0", "1", "2", "3", "4", "5", "6", "7", "8", "9">>[n + 1]

\* the text of a month as a column label, "2023-04"
MonthText(m) ==
    LET y == m \div 12
        c == (m % 12) + 1
    IN  <<Digit(y \div 1000), Digit((y \div 100) % 10), Digit((y \div 10) % 10),
          Digit(y % 10), "-", Digit(c \div 10), Digit(c % 10)>>

\* add_prefix(f"{m}__") on the month columns of one pivot
ColumnName(m, month) == MetricChars(m) \o <<"_", "_">> \o MonthText(month)

\* t in s, of two texts
Contains(s, t) ==
    \E i \in 0..(Len(s) - Len(t)) : \A j \in 1..Len(t) : s[i + j] = t[j]

\* filter(like=f"{m}__") keeps the column named col
Like(col, m) == Contains(col, MetricChars(m) \o <<"_", "_">>)

RECURSIVE SumPairs(_)
\* sum of the values of a set of <<key, value>> pairs, empty values skipped
SumPairs(S) ==
    IF S = {} THEN Whole(0)
    ELSE LET p == CHOOSE x \in S : TRUE
         IN  IF IsNull(p[2]) THEN SumPairs(S \ {p}) ELSE RAdd(p[2], SumPairs(S \ {p}))

\* the metrics other than TOFU and BOFU that the rows of a workbook carry
OtherMetrics(R) == UNION {DOMAIN r.val : r \in {x \in R : "val" \in DOMAIN x}}

\* pivot_table(..., values=m, aggfunc="sum") of another metric
PivotOther(R, v, m, month) ==
    LET g == {r \in RowsOf(R, v) : r.month = month}
    IN  IF g = {} THEN Null ELSE SumPairs({<<r.month, r.val[m]>> : r \in g})

\* the cell of the column ColumnName(m, month) in the row of v
PivotCell(R, v, m, month) ==
    IF m = metrics[1] THEN PivotTofu(R, v, month)
    ELSE IF m = metrics[2] THEN PivotBofu(R, v, month)
    ELSE PivotOther(R, v, m, month)

\* the columns of merged: every metric of the workbook, every month
MergedColumns(R) == ({metrics[1], metrics[2]} \cup OtherMetrics(R)) \X MonthsOf(R)

\* merged.filter(like=f"{m}__").sum(axis=1), empty cells skipped
TotalSumOf(R, v, m) ==
    LET keep == {c \in MergedColumns(R) : Like(ColumnName(c[1], c[2]), m)}
    IN  SumPairs({<<c, PivotCell(R, v, c[1], c[2])>> : c \in keep})

MonthRow(R, v) ==
    LET t == [m \in MonthsOf(R) |-> PivotTofu(R, v, m)]
        b == [m \in MonthsOf(R) |-> PivotBofu(R, v, m)]
    IN  [tofu |-> t, bofu |-> b,
         totalTofu |-> SumCells(t, MonthsOf(R)), totalBofu |-> SumCells(b, MonthsOf(R)),
         other |-> [m \in OtherMetrics(R) |->
                       [month \in MonthsOf(R) |-> PivotOther(R, v, m, month)]],
         totalOther |-> [m \in OtherMetrics(R) |-> TotalSumOf(R, v, m)]]

build_month_pivot(R) ==
    [step |-> "month", status |-> "ok", rows |-> [v \in PanSet(R) |-> MonthRow(R, v)]]

----------------------------------------------------------------------------
(* The workbook file.  data_pull writes the base sheet with to_excel, which *)
(* names it "Sheet1"; a calc step reads the first sheet of the file with    *)
(* pd.read_excel(path) and writes its own sheet through                     *)
(* ExcelWriter(path, mode="a", if_sheet_exists="replace").                  *)

BaseSheetName == "Sheet1"

\* to_excel(w, sheet_name=...) of the three calc steps
SheetName(step) ==
    IF step = "month" THEN "All Metrics Pivot"
    ELSE IF step = "quarter" THEN "Quaterly Metrics"
    ELSE "Quaterly Metrics wo duplicates"

\* mode="a": a new sheet is put first in the file
WriteSheetFirst(names, n) ==
    IF \E i \in 1..Len(names) : names[i] = n THEN names ELSE <<n>> \o names

\* mode="a", if_sheet_exists="replace": a new sheet goes after the sheets of
\* the file, an existing one is replaced at its position
WriteSheet(names, n) ==
    IF \E i \in 1..Len(names) : names[i] = n THEN names ELSE Append(names, n)

\* pd.read_excel(path) gives the first sheet; a derived sheet has no "Month"
\* column, so a step that reads one raises KeyError before it writes
ReadFirstSheet(names, res) ==
    IF Head(names) = BaseSheetName THEN res
    ELSE [step |-> res.step, status |-> "raised", rows |-> <<>>]

----------------------------------------------------------------------------
(* Inputs and actions: fiscal calendar                                    *)

(* State machines: initial values of the variables a machine leaves alone *)

FiscalIdle == [c2 |-> NoLabel, q2 |-> UNSET, c3 |-> NoLabel, q3 |-> UNSET,
               cm |-> NoLabel,
               prev |-> [c2 |-> NoLabel, c3 |-> NoLabel, cm |-> NoLabel], n |-> 0]

TierIdleIn  == [cnt |-> 0, first |-> "na"]
TierIdleOut == [py |-> <<>>, sql |-> <<>>, sqlnew |-> <<>>]

\* the workbook after data_pull: no calc step has run (prior is the outcome of
\* the run before the latest one, left the calc runs still to be made)
SheetIdle == [step |-> "none", status |-> "none", rows |-> <<>>,
              prior |-> [status |-> "none", rows |-> <<>>],
              names |-> <<BaseSheetName>>, left |-> 1]

\* a dataset row with every column absent or empty, nothing computed
Missing == [k |-> "missing", n |-> 0, d |-> 1]
CoIdle  == [cash |-> Missing, invest |-> Missing, borr |-> Missing, growth |-> Missing,
            rating |-> [col |-> FALSE, text |-> <<>>]]
NotComputed == [k |-> "unset", n |-> 0, d |-> 1]
EnrIdle == [cash |-> UNSET, step |-> "none", status |-> "none", dep |-> <<>>,
            rate |-> NotComputed, app |-> <<>>, cli |-> <<>>]

\* no call of calc_all.run
RunIdle == [pc |-> "idle", log |-> <<>>, cb |-> <<>>, steps |-> <<>>, result |-> <<>>]

\* a dataset without rows
DsIdle == [rows |-> {}, comp |-> <<>>]

ShareIdle == [sql |-> Null, py |-> Null, sqlDone |-> FALSE, pyDone |-> FALSE]
TxnIdle   == [bid |-> 0, bidNull |-> TRUE, ed |-> Null, amt |-> Null, apr |-> Null,
              days |-> Null, rate |-> Null, estMinusDue |-> Null,
              estMinusCleared |-> Null]

\* the dates labelled by the model: two days before each month end, then forward
Years == {1999, 2009, 2023, 2024, 2099}

MaxDaySteps == 3

StartDates == { [year |-> y, month |-> m, day |-> DaysInMonth(y, m) - 1] :
                    y \in Years, m \in 1..12 }

\* calculations_2: df["FY"] = df["Month"].apply(fy_label); df["Q"] = ...apply(fy_quarter)
LabelCalc2 ==
    /\ fy.c2 = NoLabel
    /\ fy' = [fy EXCEPT !.c2 = fy_label_c2(date), !.q2 = fy_quarter_c2(date)]
    /\ UNCHANGED <<date, txn, share, tin, tout, raw, sheet, co, enr, ds, run>>

\* calculations_3: raw["FY"] = raw["Month"].apply(fy_label); raw["Q"] = ...
LabelCalc3 ==
    /\ fy.c3 = NoLabel
    /\ fy' = [fy EXCEPT !.c3 = fy_label_c3(date), !.q3 = fy_quarter_c3(date)]
    /\ UNCHANGED <<date, txn, share, tin, tout, raw, sheet, co, enr, ds, run>>

\* company_metrics: df["FY"] = month_ts.map(_fy_label)
LabelCompanyMetrics ==
    /\ fy.cm = NoLabel
    /\ fy' = [fy EXCEPT !.cm = fy_label_cm(date)]
    /\ UNCHANGED <<date, txn, share, tin, tout, raw, sheet, co, enr, ds, run>>

\* the next row of the Month column holds the following calendar day
NextDay ==
    /\ fy.c2 # NoLabel /\ fy.c3 # NoLabel /\ fy.cm # NoLabel
    /\ fy.n < MaxDaySteps
    /\ date' = NextDate(date)
    /\ fy' = [FiscalIdle EXCEPT !.prev = [c2 |-> fy.c2, c3 |-> fy.c3, cm |-> fy.cm],
                                !.n = fy.n + 1]
    /\ UNCHANGED <<txn, share, tin, tout, raw, sheet, co, enr, ds, run>>

InitFiscal ==
    /\ date \in StartDates
    /\ fy = FiscalIdle
    /\ txn = TxnIdle /\ share = ShareIdle
    /\ tin = TierIdleIn /\ tout = TierIdleOut
    /\ raw = {} /\ sheet = SheetIdle
    /\ co = CoIdle /\ enr = EnrIdle /\ ds = DsIdle
    /\ run = RunIdle

NextFiscal == LabelCalc2 \/ LabelCalc3 \/ LabelCompanyMetrics \/ NextDay

SpecFiscal == InitFiscal /\ [][NextFiscal]_vars


----------------------------------------------------------------------------
(* Inputs and actions: revenue share                                      *)

(* Transactions given to the two implementations.  Buyer ids: every id of   *)
(* either rule table, one id of no rule, and a missing id.                  *)
RuleBuyerIds ==
    {128999, 11111, 24814, 163022, 448, 9916, 158109, 586, 10963, 11326, 11,
     246800, 275674, 24217, 136067, 4752, 154673, 379, 22483, 199095, 368,
     193694, 66, 452, 546, 431, 11323, 8672, 1437, 153, 55, 8933, 196860,
     196029, 38, 2795, 11625, 24505, 688}

\* discount amounts in thousands (50 is the 50,000 of the documented scenario)
Discounts == {Whole(0), Whole(50)}
Amounts   == {Whole(0), Whole(1000), Whole(TierLow), Whole(TierHigh), Whole(2 * TierLow)}
Aprs      == {Whole(0), Whole(6), Whole(9), Whole(11), Whole(12), Whole(20)}
DaysAdv   == {Whole(0), Whole(30)}
DiscRates == {Whole(0), Whole(2)}
DayDiffs  == {Whole(0), Whole(10), Whole(20)}

Txns ==
    { [bid |-> b, bidNull |-> FALSE, ed |-> e, amt |-> a, apr |-> p, days |-> n,
       rate |-> r, estMinusDue |-> Whole(10), estMinusCleared |-> Whole(20)] :
        b \in RuleBuyerIds \cup {99999}, e \in Discounts, a \in Amounts,
        p \in Aprs, n \in DaysAdv, r \in DiscRates }
    \cup
    { [bid |-> 0, bidNull |-> TRUE, ed |-> e, amt |-> a, apr |-> p, days |-> n,
       rate |-> Whole(2), estMinusDue |-> Whole(10), estMinusCleared |-> Whole(20)] :
        e \in Discounts, a \in Amounts, p \in Aprs, n \in DaysAdv }
    \cup
    \* a row of no rule whose other columns are all empty
    { [bid |-> b[1], bidNull |-> b[2], ed |-> Null, amt |-> Null, apr |-> Null,
       days |-> Null, rate |-> Null, estMinusDue |-> Null, estMinusCleared |-> Null] :
        b \in {<<99999, FALSE>>, <<0, TRUE>>} }
    \cup
    { [bid |-> 2795, bidNull |-> FALSE, ed |-> e, amt |-> Whole(1000), apr |-> Whole(12),
       days |-> Whole(30), rate |-> Whole(2), estMinusDue |-> x, estMinusCleared |-> y] :
        e \in Discounts, x \in DayDiffs, y \in DayDiffs }

\* RequestSummary evaluates GREATEST(CASE ..., 0) for the row
SqlRequestSummary ==
    /\ ~share.sqlDone
    /\ share' = [share EXCEPT !.sql = SqlBuyerShare(txn), !.sqlDone = TRUE]
    /\ UNCHANGED <<date, fy, txn, tin, tout, raw, sheet, co, enr, ds, run>>

\* run_invoice_pull: df["Buyer Revenue Share"] = df.apply(buyer_share, axis=1)
PyInvoicePull ==
    /\ ~share.pyDone
    /\ share' = [share EXCEPT !.py = buyer_share(txn), !.pyDone = TRUE]
    /\ UNCHANGED <<date, fy, txn, tin, tout, raw, sheet, co, enr, ds, run>>

InitShare ==
    /\ txn \in Txns
    /\ share = ShareIdle
    /\ date = [year |-> 2024, month |-> 4, day |-> 1] /\ fy = FiscalIdle
    /\ tin = TierIdleIn /\ tout = TierIdleOut
    /\ raw = {} /\ sheet = SheetIdle
    /\ co = CoIdle /\ enr = EnrIdle /\ ds = DsIdle
    /\ run = RunIdle

NextShare == SqlRequestSummary \/ PyInvoicePull

SpecShare == InitShare /\ [][NextShare]_vars

----------------------------------------------------------------------------
(* Inputs and actions: the workbook                                        *)

MaxRows == 3

\* the months of the base sheet: April 2023 and months 1, 2, 7, 10, 13, 19 later
BaseMonth == 2023 * 12 + 3
Months    == {BaseMonth + o : o \in {0, 1, 2, 7, 10, 13, 19}}

\* amounts in lacs of one row: <<TOFU, BOFU>>; V2 also has a row with an empty
\* TOFU cell and a row with a negative TOFU in the first and the last month
RowUniverse ==
    { [pan |-> "V1", month |-> m, tofu |-> a[1], tofuNull |-> FALSE, bofu |-> a[2]] :
        m \in Months, a \in {<<0, 0>>, <<5, 0>>, <<5, 4>>, <<0, 4>>} }
    \cup
    { [pan |-> "V2", month |-> m, tofu |-> a[1], tofuNull |-> FALSE, bofu |-> a[2]] :
        m \in Months, a \in {<<5, 0>>, <<5, 4>>} }
    \cup
    { [pan |-> "V2", month |-> m, tofu |-> 0, tofuNull |-> TRUE, bofu |-> 0] :
        m \in {BaseMonth, BaseMonth + 19} }
    \cup
    { [pan |-> "V2", month |-> m, tofu |-> -5, tofuNull |-> FALSE, bofu |-> 0] :
        m \in {BaseMonth, BaseMonth + 19} }

\* data_pull.run writes one more row of the query result to the base sheet;
\* the query groups by vendor, buyer and month, so a vendor has one row a month
PullRow ==
    /\ sheet.step = "none"
    /\ Cardinality(raw) < MaxRows
    /\ \E r \in RowUniverse :
          /\ \A q \in raw : q.pan = r.pan => q.month # r.month
          /\ raw' = raw \cup {r}
    /\ UNCHANGED <<date, fy, txn, share, tin, tout, sheet, co, enr, ds, run>>

\* a calc step may run on a workbook that holds data, again on its own output
CanRun(step) == sheet.left > 0 /\ sheet.step \in {"none", step} /\ raw # {}

\* the workbook after a calc step with the outcome res: the step's sheet is
\* written when the step did not raise
AfterRun(res) ==
    [step |-> res.step, status |-> res.status, rows |-> res.rows,
     prior |-> [status |-> sheet.status, rows |-> sheet.rows],
     names |-> IF res.status = "ok" THEN WriteSheet(sheet.names, SheetName(res.step))
               ELSE sheet.names,
     left |-> sheet.left - 1]

\* build_supplier_pivot(path)
RunSupplierPivot ==
    /\ CanRun("supplier")
    /\ sheet' = AfterRun(ReadFirstSheet(sheet.names, build_supplier_pivot(raw)))
    /\ UNCHANGED <<date, fy, txn, share, tin, tout, raw, co, enr, ds, run>>

Init ==
    /\ raw = {}
    /\ sheet = SheetIdle
    /\ date = [year |-> 2024, month |-> 4, day |-> 1] /\ fy = FiscalIdle
    /\ txn = TxnIdle /\ share = ShareIdle
    /\ tin = TierIdleIn /\ tout = TierIdleOut
    /\ co = CoIdle /\ enr = EnrIdle /\ ds = DsIdle
    /\ run = RunIdle

\* build_quarter_metrics(path)
RunQuarterMetrics ==
    /\ CanRun("quarter")
    /\ sheet' = AfterRun(ReadFirstSheet(sheet.names, build_quarter_metrics(raw)))
    /\ UNCHANGED <<date, fy, txn, share, tin, tout, raw, co, enr, ds, run>>

\* data_pull.run: the query computes VendorCategories over the same vendor-months
RunVendorCategories ==
    /\ sheet.step = "none"
    /\ raw # {}
    /\ sheet' = [sheet EXCEPT !.step = "sql", !.status = VendorCategories(raw).status,
                               !.rows = VendorCategories(raw).rows]
    /\ UNCHANGED <<date, fy, txn, share, tin, tout, raw, co, enr, ds, run>>

Next == PullRow \/ RunSupplierPivot \/ RunQuarterMetrics \/ RunVendorCategories

Spec == Init /\ [][Next]_vars

(* Calc steps run more than once on one workbook *)

MaxRuns == 2

\* the rows of the workbooks that are run again
RerunRows ==
    {r \in RowUniverse : r.month \in {BaseMonth, BaseMonth + 7, BaseMonth + 13, BaseMonth + 19}
                         /\ (r.pan = "V1" => r.tofu = 5)}

\* base sheets as data_pull writes them: one row per vendor and month
Workbooks ==
    {R \in SUBSET RerunRows :
        /\ R # {} /\ Cardinality(R) <= MaxRows
        /\ \A q, r \in R : (q.pan = r.pan /\ q.month = r.month) => q = r}

\* build_month_pivot(excel_path)
RunMonthPivot ==
    /\ CanRun("month")
    /\ sheet' = AfterRun(ReadFirstSheet(sheet.names, build_month_pivot(raw)))
    /\ UNCHANGED <<date, fy, txn, share, tin, tout, raw, co, enr, ds, run>>

InitRerun ==
    /\ raw \in Workbooks
    /\ sheet = [SheetIdle EXCEPT !.left = MaxRuns]
    /\ date = [year |-> 2024, month |-> 4, day |-> 1] /\ fy = FiscalIdle
    /\ txn = TxnIdle /\ share = ShareIdle
    /\ tin = TierIdleIn /\ tout = TierIdleOut
    /\ co = CoIdle /\ enr = EnrIdle /\ ds = DsIdle
    /\ run = RunIdle

NextRerun == RunMonthPivot \/ RunQuarterMetrics \/ RunSupplierPivot

SpecRerun == InitRerun /\ [][NextRerun]_vars

(* calc_all.run(excel_path, progress_callback): one call, step by step.    *)
(* The messages are written without their leading pictograph and ellipsis. *)
(* run is called with a progress_callback, which records what it is given *)
(* in run.cb.                                                              *)

Messages ==
    <<"Creating monthly pivot sheet", "Building quarterly metrics sheet",
      "Creating supplier-level raw pivot", "All sheets generated!">>

\* the position after a step: an exception of the step leaves run
AfterStep(res, next) == IF res.status = "raised" THEN "raised" ELSE next

\* log(msg): logs.append(msg); progress_callback(msg); the last message is
\* followed by return logs
CalcAllLog ==
    /\ run.pc \in {"idle", "log2", "log3", "log4"}
    /\ raw # {}
    /\ LET msg == Messages[Len(run.log) + 1]
           log == Append(run.log, msg)
       IN  run' = [run EXCEPT !.log = log, !.cb = Append(run.cb, msg),
                              !.pc = IF run.pc = "idle" THEN "month"
                                     ELSE IF run.pc = "log2" THEN "quarter"
                                     ELSE IF run.pc = "log3" THEN "supplier" ELSE "done",
                              !.result = IF run.pc = "log4" THEN log ELSE <<>>]
    /\ UNCHANGED <<date, fy, txn, share, tin, tout, raw, sheet, co, enr, ds>>

\* the three calls of run, by position
CalcStep(step, R) ==
    IF step = "month" THEN build_month_pivot(R)
    ELSE IF step = "quarter" THEN build_quarter_metrics(R)
    ELSE build_supplier_pivot(R)

\* the message that follows a step
MessageAfter(step) ==
    IF step = "month" THEN "log2" ELSE IF step = "quarter" THEN "log3" ELSE "log4"

\* build_month_pivot(excel_path), build_quarter_metrics(excel_path) or
\* build_supplier_pivot(excel_path), whichever run has come to
CalcAllStep ==
    /\ run.pc \in {"month", "quarter", "supplier"}
    /\ \E res \in {AfterRun(ReadFirstSheet(sheet.names, CalcStep(run.pc, raw)))} :
          /\ sheet' = res
          /\ run' = [run EXCEPT !.steps = Append(run.steps, run.pc),
                                !.pc = AfterStep(res, MessageAfter(run.pc))]
    /\ UNCHANGED <<date, fy, txn, share, tin, tout, raw, co, enr, ds>>

InitCalcAll ==
    /\ raw \in Workbooks
    /\ sheet = [SheetIdle EXCEPT !.left = Len(Messages) - 1]
    /\ run = RunIdle
    /\ date = [year |-> 2024, month |-> 4, day |-> 1] /\ fy = FiscalIdle
    /\ txn = TxnIdle /\ share = ShareIdle
    /\ tin = TierIdleIn /\ tout = TierIdleOut
    /\ co = CoIdle /\ enr = EnrIdle /\ ds = DsIdle

NextCalcAll == CalcAllLog \/ CalcAllStep

\* a step that was called comes back: run goes on to the next message, or
\* the step's exception leaves run
StepReturns ==
    /\ run.pc \in {"month", "quarter", "supplier"}
    /\ \E p \in {"log2", "log3", "log4", "raised"} :
          run' = [run EXCEPT !.steps = Append(run.steps, run.pc), !.pc = p]

\* run is synchronous: once called it goes on until it returns or raises
SpecCalcAll ==
    InitCalcAll /\ [][NextCalcAll]_vars /\ WF_vars(CalcAllLog) /\ WF_run(StepReturns)

(* build_month_pivot on workbooks that carry the day and rate metrics *)

\* one vendor-month of a base sheet with the columns "Days Advanced",
\* "Max Days Advanced", "APR" and "Wtd APR"
PivotRows ==
    { [pan |-> "V1", month |-> m, tofu |-> 5, tofuNull |-> FALSE, bofu |-> 4,
       val |-> [x \in {metrics[6], metrics[7], metrics[8], metrics[12]} |->
                   IF x = metrics[6] THEN Whole(d)
                   ELSE IF x = metrics[7] THEN Whole(md)
                   ELSE IF x = metrics[8] THEN Whole(a) ELSE Whole(wa)]] :
        m \in {BaseMonth, BaseMonth + 1}, d \in {0, 10}, md \in {0, 30},
        a \in {0, 12}, wa \in {0, 11} }

\* base sheets of one or two months, one row per vendor and month
PivotWorkbooks ==
    {R \in {{q, r} : q \in PivotRows, r \in PivotRows} :
        \A q, r \in R : q.month = r.month => q = r}

InitPivot ==
    /\ raw \in PivotWorkbooks
    /\ sheet = [SheetIdle EXCEPT !.left = MaxRuns]
    /\ date = [year |-> 2024, month |-> 4, day |-> 1] /\ fy = FiscalIdle
    /\ txn = TxnIdle /\ share = ShareIdle
    /\ tin = TierIdleIn /\ tout = TierIdleOut
    /\ co = CoIdle /\ enr = EnrIdle /\ ds = DsIdle
    /\ run = RunIdle

NextPivot == RunMonthPivot

SpecPivot == InitPivot /\ [][NextPivot]_vars

----------------------------------------------------------------------------
(* Inputs and actions: the count-based TOFU tier of one vendor             *)

\* an 18-month window of build_supplier_pivot holds at most 19 months
MaxCount == 19

\* first: the vendor's first TOFU quarter is missing, the latest one, or older
TierInputs == [cnt : 0..MaxCount, first : {"na", "latest", "older"}]

TierLatestMonth == BaseMonth + 19
TierOlderMonth  == BaseMonth

TierFirstLabel(i) ==
    IF i.first = "na" THEN NoLabel
    ELSE IF i.first = "latest" THEN Fyq3(TierLatestMonth) ELSE Fyq3(TierOlderMonth)

\* build_supplier_pivot: the three tofu_cat calls, thresholds 13/7, 9/5, 5/3
PyTofuCategories ==
    /\ tout.py = <<>>
    /\ tout' = [tout EXCEPT !.py =
          [w18 |-> tofu_cat(TierFirstLabel(tin), Whole(tin.cnt), 13, 7, Fyq3(TierLatestMonth)),
           w12 |-> tofu_cat(TierFirstLabel(tin), Whole(tin.cnt), 9, 5, Fyq3(TierLatestMonth)),
           w6  |-> tofu_cat(TierFirstLabel(tin), Whole(tin.cnt), 5, 3, Fyq3(TierLatestMonth))]]
    /\ UNCHANGED <<date, fy, txn, share, tin, raw, sheet, co, enr, ds, run>>

\* data_pull.py: tofu_cat_6m, tofu_cat_12m
SqlTofuCategories ==
    /\ tout.sql = <<>>
    /\ tout' = [tout EXCEPT !.sql =
          [w12 |-> sql_tofu_cat_12m(tin.cnt), w6 |-> sql_tofu_cat_6m(tin.cnt)]]
    /\ UNCHANGED <<date, fy, txn, share, tin, raw, sheet, co, enr, ds, run>>

\* data_pull_new.py: tofu_cat_6m, tofu_cat_12m
SqlNewTofuCategories ==
    /\ tout.sqlnew = <<>>
    /\ tout' = [tout EXCEPT !.sqlnew =
          [w12 |-> sqlnew_tofu_cat_12m(tin.first = "latest", tin.cnt),
           w6  |-> sqlnew_tofu_cat_6m(tin.first = "latest", tin.cnt)]]
    /\ UNCHANGED <<date, fy, txn, share, tin, raw, sheet, co, enr, ds, run>>

InitTier ==
    /\ tin \in TierInputs
    /\ tout = TierIdleOut
    /\ raw = {} /\ sheet = SheetIdle
    /\ date = [year |-> 2024, month |-> 4, day |-> 1] /\ fy = FiscalIdle
    /\ txn = TxnIdle /\ share = ShareIdle
    /\ co = CoIdle /\ enr = EnrIdle /\ ds = DsIdle
    /\ run = RunIdle

NextTier == PyTofuCategories \/ SqlTofuCategories \/ SqlNewTofuCategories

SpecTier == InitTier /\ [][NextTier]_vars

----------------------------------------------------------------------------
(* company_metrics.enrich_dataframe: the Cash-Rich Status column.  A cell   *)
(* of a numeric column is a number, empty (Null), a text that is no number  *)
(* (Text), or the column is absent from the dataset (Missing).  The rating  *)
(* is [col, text]: col says whether the dataset has a rating column, text   *)
(* is the cell as astype(str) gives it, a sequence of characters.           *)

Text == [k |-> "text", n |-> 0, d |-> 1]

\* the float infinity of a division by zero
Inf == [k |-> "inf", n |-> 1, d |-> 1]

\* _safe_series(df, col, default): the default for an absent column, else
\* pd.to_numeric(errors="coerce")
safe_series(x, default) ==
    IF x = Missing THEN default ELSE IF x = Text THEN Null ELSE x

\* Series.replace(0, np.nan)
Replace0(x) == IF IsNum(x) /\ x.n = 0 THEN Null ELSE x

\* float division of two cells: NaN operands give NaN, x/0 is inf or NaN
FloatDiv(a, b) ==
    IF ~IsNum(a) \/ ~IsNum(b) THEN Null
    ELSE IF b.n = 0 THEN (IF a.n = 0 THEN Null ELSE [Inf EXCEPT !.n = IF a.n > 0 THEN 1 ELSE -1])
    ELSE RQuot(a, b)

\* x > n and x < n for a float cell; NaN compares False
GtInt(x, n) == (x.k = "inf" /\ x.n > 0) \/ (IsNum(x) /\ x.n > n * x.d)
LtInt(x, n) == (x.k = "inf" /\ x.n < 0) \/ (IsNum(x) /\ x.n < n * x.d)

\* str.upper() on the letters of the ratings
UpperChar(c) == IF c = "a" THEN "A" ELSE IF c = "b" THEN "B" ELSE IF c = "n" THEN "N" ELSE c
Upper(s)     == [i \in 1..Len(s) |-> UpperChar(s[i])]

\* str.startswith("AA")
StartsWithAA(s) == Len(s) >= 2 /\ s[1] = "A" /\ s[2] = "A"

\* enrich_dataframe, "Cash-Rich Status": without a rating column, rating is
\* the str "" and rating.str raises AttributeError
cash_rich_status(c) ==
    LET cash_eq  == safe_series(c.cash, Whole(0))
        invest   == safe_series(c.invest, Whole(0))
        st_borr  == Replace0(safe_series(c.borr, Null))
        rev_grow == safe_series(c.growth, Whole(0))
        ratio    == FloatDiv(RAdd(cash_eq, invest), st_borr)
    IN  IF ~c.rating.col THEN RAISED
        ELSE IF (GtInt(ratio, 2) /\ LtInt(rev_grow, 15)) \/ StartsWithAA(Upper(c.rating.text))
             THEN "Cash-Rich"
        ELSE "Non-Cash Rich"

\* rows of the per-company dataset
Ratings ==
    {[col |-> FALSE, text |-> <<>>]} \cup
    {[col |-> TRUE, text |-> t] :
        t \in {<<"A", "A", "+">>, <<"a", "a">>, <<"A">>, <<"A", "-">>, <<"B", "B", "B">>,
               <<"n", "a", "n">>}}

Companies ==
    [cash   : {Missing, Null, Whole(0), Whole(200), Whole(300)},
     invest : {Missing, Whole(0), Whole(100)},
     borr   : {Missing, Text, Whole(0), Whole(100), Whole(150)},
     growth : {Missing, Null, Whole(10), Whole(15), Whole(20)},
     rating : Ratings]

\* enrich_dataframe(df): the Cash-Rich Status block
EnrichCashRich ==
    /\ enr.cash = UNSET
    /\ enr' = [enr EXCEPT !.cash = cash_rich_status(co)]
    /\ UNCHANGED <<date, fy, txn, share, tin, tout, raw, sheet, co, ds, run>>

InitCompany ==
    /\ co \in Companies
    /\ enr = EnrIdle /\ ds = DsIdle
    /\ date = [year |-> 2024, month |-> 4, day |-> 1] /\ fy = FiscalIdle
    /\ txn = TxnIdle /\ share = ShareIdle
    /\ tin = TierIdleIn /\ tout = TierIdleOut
    /\ raw = {} /\ sheet = SheetIdle
    /\ run = RunIdle

NextCompany == EnrichCashRich

SpecCompany == InitCompany /\ [][NextCompany]_vars

----------------------------------------------------------------------------
(* company_metrics.enrich_dataframe: Indicative Interest Rate (%).  A row   *)
(* is [fin, annual, borr, lborr]: "Finance Cost (% of Sales)", "Annual      *)
(* Revenue", "Short term borrowings", "Long term borrowings".               *)

\* a rate or ratio rounded to two decimals, ties to the even hundredth
Round2(x) ==
    IF ~IsNum(x) THEN x
    ELSE LET q == (x.n * 100) \div x.d
             r == (x.n * 100) % x.d
             up == 2 * r > x.d \/ (2 * r = x.d /\ q % 2 = 1)
         IN  Num(IF up THEN q + 1 ELSE q, 100)

\* x * 100 for a float cell
Times100(x) == IF IsNum(x) THEN RMul(x, Whole(100)) ELSE x

\* the sentinel written for a rate outside the band
DataNA == [k |-> "DATA NA", n |-> 0, d |-> 1]

\* np.where(mask, indic_rate, "DATA NA") gives an array of strings: a rate
\* that is kept is the text of its value
NumStr(x) == [x EXCEPT !.k = "numstr"]

\* Series.between(lo, hi), bounds excluded
BetweenOpen(x, lo, hi) == IsNum(x) /\ lo * x.d < x.n /\ x.n < hi * x.d

\* Series.between(lo, hi): both bounds included, NaN is outside
Between(x, lo, hi) == IsNum(x) /\ lo * x.d <= x.n /\ x.n <= hi * x.d

\* indic_rate = (fin_cost_pct * turnover) / total_debt.replace(0, nan) * 100, rounded
indic_rate(c) ==
    LET fin_cost_pct == FloatDiv(safe_series(c.fin, Null), Whole(100))
        turnover     == safe_series(c.annual, Null)
        total_debt   == RAdd(safe_series(c.borr, Whole(0)), safe_series(c.lborr, Whole(0)))
    IN  Round2(Times100(FloatDiv(RMul(fin_cost_pct, turnover), Replace0(total_debt))))

\* df["Indicative Interest Rate (%)"]
interest_rate(c) ==
    IF Between(indic_rate(c), 7, 14) THEN NumStr(indic_rate(c)) ELSE DataNA

\* rows of the dataset: rates of 0, 6.99, 6.996, 7, 14, 14.004, 14.006 and beyond
RateCompanies ==
    [fin    : {Missing, Null, Text, Whole(0), Whole(7), Whole(14), Num(699, 100),
               Num(6996, 1000), Num(14004, 1000), Num(14006, 1000)},
     annual : {Missing, Null, Whole(0), Whole(1000)},
     borr   : {Missing, Null, Whole(0), Whole(100), Whole(500)},
     lborr  : {Missing, Whole(0), Whole(400), Whole(500)}]

\* enrich_dataframe(df): the Indicative Interest Rate block
EnrichInterestRate ==
    /\ enr.step = "none"
    /\ enr' = [enr EXCEPT !.step = "rate", !.status = "ok", !.rate = interest_rate(co)]
    /\ UNCHANGED <<date, fy, txn, share, tin, tout, raw, sheet, co, ds, run>>

InitRate ==
    /\ co \in RateCompanies
    /\ enr = EnrIdle /\ ds = DsIdle
    /\ date = [year |-> 2024, month |-> 4, day |-> 1] /\ fy = FiscalIdle
    /\ txn = TxnIdle /\ share = ShareIdle
    /\ tin = TierIdleIn /\ tout = TierIdleOut
    /\ raw = {} /\ sheet = SheetIdle
    /\ run = RunIdle

NextRate == EnrichInterestRate

SpecRate == InitRate /\ [][NextRate]_vars

----------------------------------------------------------------------------
(* The colouring of the "... Deviation %" cells of the Calculations sheet:  *)
(* excel_with_colours (app.py) and the loop of company_metrics._cli.  A     *)
(* cell holds a number, NaN (Null), infinity, nothing (NoValue) or a text   *)
(* that is no number (Text); the outcome is the fill of the cell.           *)

NoValue == [k |-> "none", n |-> 0, d |-> 1]

\* float(cell.value) raises TypeError for None and ValueError for a text
FloatRaises(x) == x = NoValue \/ x = Text

\* val <= n for a float; NaN compares False
LeInt(x, n) == (x.k = "inf" /\ x.n < 0) \/ (IsNum(x) /\ x.n <= n * x.d)

\* app.excel_with_colours: fill_good if val <= 20 else fill_avg if val <= 50 else fill_bad
app_fill(x) ==
    IF FloatRaises(x) THEN "no fill"
    ELSE IF LeInt(x, 20) THEN "good"
    ELSE IF LeInt(x, 50) THEN "avg"
    ELSE "bad"

\* company_metrics._cli: if / elif chain with the pd.isna test before "bad"
cli_fill(x) ==
    IF FloatRaises(x) THEN "no fill"
    ELSE IF LeInt(x, 20) THEN "good"
    ELSE IF LeInt(x, 50) THEN "avg"
    ELSE IF IsNull(x) THEN "no fill"
    ELSE "bad"

DeviationColumns == {"Current Ratio Deviation %", "Payable Days Deviation %"}

DeviationCells ==
    {Whole(0), Whole(20), Num(2001, 100), Whole(50), Num(5001, 100), Whole(100),
     Whole(-5), Null, Inf, NoValue, Text}

\* excel_with_colours(enriched_df, bench_df)
ColourApp ==
    /\ enr.app = <<>>
    /\ enr' = [enr EXCEPT !.app = [c \in DeviationColumns |-> app_fill(co[c])]]
    /\ UNCHANGED <<date, fy, txn, share, tin, tout, raw, sheet, co, ds, run>>

\* _cli: the colour-map loop over the Calculations sheet
ColourCli ==
    /\ enr.cli = <<>>
    /\ enr' = [enr EXCEPT !.cli = [c \in DeviationColumns |-> cli_fill(co[c])]]
    /\ UNCHANGED <<date, fy, txn, share, tin, tout, raw, sheet, co, ds, run>>

InitColour ==
    /\ co \in [DeviationColumns -> DeviationCells]
    /\ enr = EnrIdle /\ ds = DsIdle
    /\ date = [year |-> 2024, month |-> 4, day |-> 1] /\ fy = FiscalIdle
    /\ txn = TxnIdle /\ share = ShareIdle
    /\ tin = TierIdleIn /\ tout = TierIdleOut
    /\ raw = {} /\ sheet = SheetIdle
    /\ run = RunIdle

NextColour == ColourApp \/ ColourCli

SpecColour == InitColour /\ [][NextColour]_vars

----------------------------------------------------------------------------
(* company_metrics.enrich_dataframe: Dependency % and Dependency Slab.  The *)
(* dataset is [rows, comp]: rows are the records [pan, month, tofu] of the  *)
(* columns "PAN", "Month", "TOFU (in lacs)" (tofu a number or Null), one    *)
(* row per vendor and month; comp[pan] holds the company columns            *)
(* [annual, slab] ("Annual Revenue", "Turnover range"), which merge_tool    *)
(* joins by PAN and so are the same on every row of a vendor.  A turnover   *)
(* range is [k, lo, hi]: "range" is the text "lo to hi", "above" the text   *)
(* "lo and above", "upto" the text "Up to hi", "nan" an empty cell, "other" *)
(* any other text; k = "missing" says the column is absent.                 *)

\* month_ts.dt.month
CalMonth(m) == (m % 12) + 1

\* df["FY"] = month_ts.map(_fy_label)
FyOf(m) == fy_label_cm(DateOf(m))

\* the rows of one group of groupby([supplier_key, "FY"])
FyGroup(D, v, f) == {r \in D.rows : r.pan = v /\ FyOf(r.month) = f}

RECURSIVE SumCellsOf(_)
\* series.sum(): empty cells are skipped
SumCellsOf(S) ==
    IF S = {} THEN Whole(0)
    ELSE LET r == CHOOSE x \in S : TRUE
         IN  IF IsNum(r.tofu) THEN RAdd(r.tofu, SumCellsOf(S \ {r})) ELSE SumCellsOf(S \ {r})

\* series.count(): the cells that hold a value
CountCellsOf(S) == Cardinality({r \in S : IsNum(r.tofu)})

\* series.mean()
MeanCellsOf(S) == RQuot(SumCellsOf(S), Whole(CountCellsOf(S)))

\* months_rem = 3 - (first_month - 4) if first_month >= 4 else 3 + (4 - first_month)
months_rem(first_month) ==
    IF first_month >= 4 THEN 3 - (first_month - 4) ELSE 3 + (4 - first_month)

\* _extrap(series) for the rows S of one vendor and fiscal year
extrap(S) ==
    IF CountCellsOf(S) = 0 THEN Null
    ELSE LET first_month == SetMin({CalMonth(r.month) : r \in S})
         IN  RAdd(SumCellsOf(S), RMul(MeanCellsOf(S), Whole(months_rem(first_month))))

\* tofu_fy: one line per vendor, one column per fiscal year of the dataset
FyLabels(D) == {FyOf(r.month) : r \in D.rows}
tofu_fy(D, v, f) == IF FyGroup(D, v, f) = {} THEN Null ELSE extrap(FyGroup(D, v, f))

\* the order of "FYdd" strings
FyRank(l) == DigitVal(l[3]) * 10 + DigitVal(l[4])

\* latest_fy = tofu_fy.columns.sort_values()[-1]
latest_fy(D) == CHOOSE f \in FyLabels(D) : \A g \in FyLabels(D) : FyRank(g) <= FyRank(f)

\* _parse_slab(txt); float("up") raises ValueError
parse_slab(t) ==
    IF t.k = "nan" THEN Null
    ELSE IF t.k = "range" THEN Num(t.lo + t.hi, 2)
    ELSE IF t.k = "upto" THEN Err
    ELSE IF t.k = "above" THEN Whole(t.lo)
    ELSE Null

\* revenue_series: every row's Annual Revenue, or, when no row has one, every
\* row's parsed turnover range (_get_col raises KeyError without that column)
NoAnnualRevenue(D) == \A r \in D.rows : ~IsNum(safe_series(D.comp[r.pan].annual, Null))

revenue_of(D, v) ==
    IF ~NoAnnualRevenue(D) THEN safe_series(D.comp[v].annual, Null)
    ELSE IF D.comp[v].slab.k = "missing" THEN Err
    ELSE parse_slab(D.comp[v].slab)

\* a KeyError or ValueError of the revenue lines leaves enrich_dataframe
RevenueRaises(D) == NoAnnualRevenue(D) /\ \E r \in D.rows : IsErr(revenue_of(D, r.pan))

\* dep_pct = (tofu_fy[latest_fy] / revenue_sup) * 100, rounded to 2 decimals
dep_pct(D, v) == Round2(Times100(FloatDiv(tofu_fy(D, v, latest_fy(D)), revenue_of(D, v))))

\* pd.cut(bins=[0, 25, 50, 75, 100, inf], right=False): [0,25) [25,50) ... [100,inf)
dependency_slab(x) ==
    IF ~IsNum(x) \/ x.n < 0 THEN "nan"
    ELSE IF LtInt(x, 25) THEN "<25"
    ELSE IF LtInt(x, 50) THEN "25-50"
    ELSE IF LtInt(x, 75) THEN "50-75"
    ELSE IF LtInt(x, 100) THEN "75-100"
    ELSE ">100"

DependencyRow(D, v) ==
    [fy      |-> [f \in FyLabels(D) |-> tofu_fy(D, v, f)],
     revenue |-> revenue_of(D, v),
     pct     |-> dep_pct(D, v),
     slab    |-> dependency_slab(dep_pct(D, v))]

dependency(D) ==
    IF RevenueRaises(D) THEN [status |-> "raised", dep |-> <<>>]
    ELSE [status |-> "ok", dep |-> [v \in {r.pan : r \in D.rows} |-> DependencyRow(D, v)]]

MaxDsRows == 2

\* months of the fiscal years FY24 and FY25: Apr, Dec 2023, Jan, Mar, Apr 2024
DsMonths == {BaseMonth, BaseMonth + 8, BaseMonth + 9, BaseMonth + 11, BaseMonth + 12}

\* V1 has rows in every month, V2 in the two Aprils
DsRowUniverse ==
    [pan : {"V1"}, month : DsMonths, tofu : {Null, Whole(30), Whole(100)}]
    \cup
    [pan : {"V2"}, month : {BaseMonth, BaseMonth + 12}, tofu : {Null, Whole(30)}]

Slabs ==
    {[k |-> "nan", lo |-> 0, hi |-> 0], [k |-> "range", lo |-> 100, hi |-> 300],
     [k |-> "above", lo |-> 120, hi |-> 0], [k |-> "upto", lo |-> 0, hi |-> 100],
     [k |-> "other", lo |-> 0, hi |-> 0]}

NoSlab == [k |-> "missing", lo |-> 0, hi |-> 0]

\* the company columns: a column is absent for every vendor or for none
CompanyColumns ==
    {c \in [{"V1", "V2"} -> [annual : {Missing, Null, Whole(120), Whole(1000)},
                              slab : Slabs \cup {NoSlab}]] :
        /\ (c["V1"].annual = Missing) <=> (c["V2"].annual = Missing)
        /\ (c["V1"].slab = NoSlab) <=> (c["V2"].slab = NoSlab)}

RECURSIVE RowSets(_, _)
\* the sets of at most n rows of U
RowSets(U, n) ==
    IF n = 0 THEN {{}}
    ELSE RowSets(U, n - 1) \cup {S \cup {x} : S \in RowSets(U, n - 1), x \in U}

Datasets ==
    {[rows |-> R, comp |-> c] : R \in {S \in RowSets(DsRowUniverse, MaxDsRows) :
                                        /\ S # {}
                                        /\ \A q, r \in S : (q.pan = r.pan /\ q.month = r.month) => q = r},
                               c \in CompanyColumns}

\* enrich_dataframe(df): the Dependency % / Slab block
EnrichDependency ==
    /\ enr.step = "none"
    /\ enr' = [enr EXCEPT !.step = "dep", !.status = dependency(ds).status,
                           !.dep = dependency(ds).dep]
    /\ UNCHANGED <<date, fy, txn, share, tin, tout, raw, sheet, co, ds, run>>

InitDependency ==
    /\ ds \in Datasets
    /\ co = CoIdle /\ enr = EnrIdle
    /\ date = [year |-> 2024, month |-> 4, day |-> 1] /\ fy = FiscalIdle
    /\ txn = TxnIdle /\ share = ShareIdle
    /\ tin = TierIdleIn /\ tout = TierIdleOut
    /\ raw = {} /\ sheet = SheetIdle
    /\ run = RunIdle

NextDependency == EnrichDependency

SpecDependency == InitDependency /\ [][NextDependency]_vars

----------------------------------------------------------------------------
(* company_metrics.enrich_dataframe as a whole.  The dataset is             *)
(* [rows, comp, absent]: absent is the set of columns the dataset lacks;    *)
(* comp[pan] holds all company columns                                      *)
(*   [cash, invest, borr, growth, rating, fin, annual, lborr, slab, ind, cr]*)
(* (ind the "Industry" text, "" when empty; cr the "Current Ratio").        *)

AllColumns ==
    {"Month", "PAN", "TOFU (in lacs)", "Industry", "Short term borrowings",
     "Finance Cost (% of Sales)", "Annual Revenue", "Turnover range", "Rating"}

\* the company columns as the call sees them: an absent column has no cells
CompanyOf(c, A) ==
    [cash   |-> c.cash, invest |-> c.invest, growth |-> c.growth, lborr |-> c.lborr,
     ind    |-> c.ind, cr |-> c.cr,
     borr   |-> IF "Short term borrowings" \in A THEN Missing ELSE c.borr,
     fin    |-> IF "Finance Cost (% of Sales)" \in A THEN Missing ELSE c.fin,
     annual |-> IF "Annual Revenue" \in A THEN Missing ELSE c.annual,
     slab   |-> IF "Turnover range" \in A THEN NoSlab ELSE c.slab,
     rating |-> IF "Rating" \in A THEN [col |-> FALSE, text |-> <<>>] ELSE c.rating]

Seen(D) == [rows |-> D.rows, comp |-> [v \in DOMAIN D.comp |-> CompanyOf(D.comp[v], D.absent)]]

\* the first exception of the call, "" when it completes.  A KeyError of
\* _get_col carries the column name; the rating.str AttributeError and the
\* ValueError of float() name no column
enrich_error(D) ==
    IF \E r \in D.rows : cash_rich_status(Seen(D).comp[r.pan]) = RAISED THEN "AttributeError"
    ELSE IF "Month" \in D.absent THEN "Month"
    ELSE IF "TOFU (in lacs)" \in D.absent THEN "TOFU (in lacs)"
    ELSE IF "PAN" \in D.absent THEN "PAN"
    ELSE IF NoAnnualRevenue(Seen(D)) /\ "Turnover range" \in D.absent THEN "Turnover range"
    ELSE IF RevenueRaises(Seen(D)) THEN "ValueError"
    ELSE IF "Industry" \in D.absent THEN "Industry"
    ELSE ""

\* dep_df: one line per vendor of the dataset
DepTable(D) ==
    {[key |-> v, pct |-> dep_pct(D, v), slab |-> dependency_slab(dep_pct(D, v))] :
        v \in {r.pan : r \in D.rows}}

RECURSIVE SumRatio(_, _)
\* the sum of the Current Ratio cells of the rows S, empty cells skipped
SumRatio(D, S) ==
    IF S = {} THEN Whole(0)
    ELSE LET r == CHOOSE x \in S : TRUE
         IN  RAdd(D.comp[r.pan].cr, SumRatio(D, S \ {r}))

\* rows of an industry whose Current Ratio is a number
RatioRows(D, k) == {r \in D.rows : D.comp[r.pan].ind = k /\ IsNum(D.comp[r.pan].cr)}

\* a benchmark table with one line per row of the dataset
BenchTableByRow(D) ==
    {[key |-> D.comp[r.pan].ind, avg |-> D.comp[r.pan].cr] : r \in {x \in D.rows : D.comp[x.pan].ind # ""}}

\* bench_df: groupby(bench_key).mean(), one line per industry; rows without
\* an industry are left out of the groups
BenchTable(D) ==
    {[key |-> k,
      avg |-> IF RatioRows(D, k) = {} THEN Null
              ELSE RQuot(SumRatio(D, RatioRows(D, k)), Whole(Cardinality(RatioRows(D, k))))] :
        k \in {D.comp[r.pan].ind : r \in D.rows} \ {""}}

\* ((df[mcol] - df[acol]).abs() / df[acol]) * 100
deviation(x, avg) ==
    IF ~IsNum(x) \/ ~IsNum(avg) THEN Null
    ELSE LET diff == RSub(x, avg)
         IN  Times100(FloatDiv([diff EXCEPT !.n = Abs(diff.n)], avg))

NoDep   == [key |-> "", pct |-> Null, slab |-> "nan"]
NoBench == [key |-> "", avg |-> Null]

\* the lines of a right table that a left merge joins to a key, the empty
\* line when there is none
Matches(T, k, none) == IF {t \in T : t.key = k} = {} THEN {none} ELSE {t \in T : t.key = k}

\* the enriched table: both left merges, then the derived columns
MergedRows(D, r) ==
    {[pan |-> r.pan, month |-> r.month,
      cash |-> cash_rich_status(D.comp[r.pan]),
      rate |-> interest_rate(D.comp[r.pan]),
      pct  |-> d.pct, slab |-> d.slab,
      dev  |-> deviation(D.comp[r.pan].cr, b.avg)] :
        d \in Matches(DepTable(D), r.pan, NoDep),
        b \in Matches(BenchTable(D), D.comp[r.pan].ind, NoBench)}

enriched_rows(D) == UNION {MergedRows(D, r) : r \in D.rows}

\* enrich_dataframe(df): df = df.copy() keeps the caller's table as it was
enrich_dataframe(D) ==
    IF enrich_error(D) # "" THEN [status |-> "raised", error |-> enrich_error(D), rows |-> {}, caller |-> D]
    ELSE [status |-> "ok", error |-> "", rows |-> enriched_rows(Seen(D)), caller |-> D]

MaxAbsent == 1

Profiles ==
    {[cash |-> Whole(300), invest |-> Whole(0), borr |-> Whole(100), growth |-> Whole(10),
      rating |-> [col |-> TRUE, text |-> <<"A", "A", "+">>], fin |-> Whole(7),
      annual |-> Whole(1000), lborr |-> Whole(900),
      slab |-> [k |-> "range", lo |-> 100, hi |-> 300], ind |-> "Steel", cr |-> Whole(2)],
     [cash |-> Whole(0), invest |-> Whole(0), borr |-> Whole(0), growth |-> Whole(20),
      rating |-> [col |-> TRUE, text |-> <<"B", "B", "B">>], fin |-> Null,
      annual |-> Null, lborr |-> Whole(0),
      slab |-> [k |-> "nan", lo |-> 0, hi |-> 0], ind |-> "Steel", cr |-> Whole(4)],
     [cash |-> Whole(200), invest |-> Whole(100), borr |-> Whole(100), growth |-> Whole(10),
      rating |-> [col |-> TRUE, text |-> <<"n", "a", "n">>], fin |-> Whole(14),
      annual |-> Whole(120), lborr |-> Whole(900),
      slab |-> [k |-> "above", lo |-> 120, hi |-> 0], ind |-> "Pharma", cr |-> Null],
     [cash |-> Whole(300), invest |-> Whole(0), borr |-> Whole(100), growth |-> Whole(10),
      rating |-> [col |-> TRUE, text |-> <<"A", "A", "+">>], fin |-> Whole(7),
      annual |-> Null, lborr |-> Whole(900),
      slab |-> [k |-> "range", lo |-> 100, hi |-> 300], ind |-> "", cr |-> Whole(0)]}

EnrichInputs ==
    {[rows |-> R, comp |-> c, absent |-> A] :
        R \in {S \in RowSets(DsRowUniverse, MaxDsRows) :
                  /\ S # {}
                  /\ \A q, r \in S : (q.pan = r.pan /\ q.month = r.month) => q = r},
        c \in [{"V1", "V2"} -> Profiles],
        A \in RowSets(AllColumns, MaxAbsent)}

\* enriched, bench = enrich_dataframe(df_in)
Enrich ==
    /\ enr.step = "none"
    /\ enr' = [enr EXCEPT !.step = "all", !.status = enrich_dataframe(ds).status,
                           !.dep = enrich_dataframe(ds)]
    /\ UNCHANGED <<date, fy, txn, share, tin, tout, raw, sheet, co, ds, run>>

InitEnrich ==
    /\ ds \in EnrichInputs
    /\ co = CoIdle /\ enr = EnrIdle
    /\ date = [year |-> 2024, month |-> 4, day |-> 1] /\ fy = FiscalIdle
    /\ txn = TxnIdle /\ share = ShareIdle
    /\ tin = TierIdleIn /\ tout = TierIdleOut
    /\ raw = {} /\ sheet = SheetIdle
    /\ run = RunIdle

NextEnrich == Enrich

SpecEnrich == InitEnrich /\ [][NextEnrich]_vars

----------------------------------------------------------------------------
(* Claims on the fiscal calendar                                           *)

\* the quarter the specification assigns to a calendar month
FiscalQuarterOf(m) ==
    IF m \in 4..6 THEN "Q1" ELSE IF m \in 7..9 THEN "Q2"
    ELSE IF m \in 10..12 THEN "Q3" ELSE "Q4"

\* C2: for every month 1..12 both fy_quarter implementations return Q1 for
\* April-June, Q2 for July-September, Q3 for October-December and Q4 for
\* January-March, and so return the same quarter.
C2_QuarterBothImplementations ==
    /\ fy.q2 # UNSET => fy.q2 = FiscalQuarterOf(date.month)
    /\ fy.q3 # UNSET => fy.q3 = FiscalQuarterOf(date.month)
    /\ (fy.q2 # UNSET /\ fy.q3 # UNSET) => fy.q2 = fy.q3

\* "FY" followed by the last two decimal digits of the fiscal year of d
FiscalYearDigits(d) ==
    LET y == IF d.month >= 4 THEN d.year + 1 ELSE d.year
    IN  <<"F", "Y", DigitChar[((y \div 10) % 10) + 1], DigitChar[(y % 10) + 1]>>

\* C3: each of the three fiscal-year label functions returns "FY" plus the last
\* two digits of year+1 from April on and of the year before April; the three
\* agree on every date, and from one day to the next the label changes exactly
\* when the new day is 1 April.
C3_FyLabelRollsOverAtApril ==
    /\ fy.c2 # NoLabel => fy.c2 = FiscalYearDigits(date)
    /\ fy.c3 # NoLabel => fy.c3 = FiscalYearDigits(date)
    /\ fy.cm # NoLabel => fy.cm = FiscalYearDigits(date)
    /\ (fy.c2 # NoLabel /\ fy.n > 0) =>
            ((fy.c2 # fy.prev.c2) <=> (date.month = 4 /\ date.day = 1))
    /\ (fy.c3 # NoLabel /\ fy.n > 0) =>
            ((fy.c3 # fy.prev.c3) <=> (date.month = 4 /\ date.day = 1))
    /\ (fy.cm # NoLabel /\ fy.n > 0) =>
            ((fy.cm # fy.prev.cm) <=> (date.month = 4 /\ date.day = 1))

\* 2024-03-31 was labelled FY24 and 2024-04-01 is labelled FY25 by all three
C3_Witness ==
    /\ date = [year |-> 2024, month |-> 4, day |-> 1]
    /\ fy.prev = [c2 |-> <<"F", "Y", "2", "4">>, c3 |-> <<"F", "Y", "2", "4">>,
                  cm |-> <<"F", "Y", "2", "4">>]
    /\ fy.c2 = <<"F", "Y", "2", "5">>
    /\ fy.c3 = <<"F", "Y", "2", "5">>
    /\ fy.cm = <<"F", "Y", "2", "5">>


----------------------------------------------------------------------------
(* Claims on the revenue share                                             *)

NonNegativeInputs(t) ==
    /\ IsNum(t.ed) /\ t.ed.n >= 0
    /\ IsNum(t.amt) /\ t.amt.n >= 0
    /\ IsNum(t.days) /\ t.days.n >= 0
    /\ IsNum(t.apr)

\* C4: for every buyer and every transaction with non-negative discount,
\* invoice amount and days-advanced, the revenue share is a number >= 0, in the
\* SQL expression and in buyer_share alike.
C4_ShareNonNegative ==
    NonNegativeInputs(txn) =>
        /\ share.sqlDone => (IsErr(share.sql) \/ (IsNum(share.sql) /\ share.sql.n >= 0))
        /\ share.pyDone  => (IsNum(share.py) /\ share.py.n >= 0)

----------------------------------------------------------------------------
(* Claims on the window aggregation and the tiers                          *)

PySheet == sheet.step \in {"quarter", "supplier"}

TofuLabels == {"TOFU New", "TOFU Regular", "TOFU Medium", "TOFU Low"}
BofuLabels == {"Not Txn - New TOFU", "Not Txn - Old TOFU", "Txn New", "Txn High",
               "Txn Med", "Churned >1 yr", "Churned <1 yr", "At-risk of Churn",
               "Txn Low", "Not Txn"}

\* C1: whatever the rows (missing first quarter, missing count or ratio, a
\* vendor without intake), every tofu_cat and bofu_cat call made by
\* build_quarter_metrics and build_supplier_pivot returns a label and none
\* raises; a row without intake and conversion gets the lowest tiers.
C1_ClassifiersNeverRaise ==
    PySheet =>
        /\ sheet.status = "ok"
        /\ \A v \in DOMAIN sheet.rows :
              /\ {sheet.rows[v].tofu18, sheet.rows[v].tofu12, sheet.rows[v].tofu6}
                    \subseteq TofuLabels
              /\ {sheet.rows[v].bofu18, sheet.rows[v].bofu12, sheet.rows[v].bofu6}
                    \subseteq BofuLabels
              /\ sheet.rows[v].firstTofu = NoLabel => sheet.rows[v].tofu6 = "TOFU Low"

\* the N months that end at the as-of month M
TrailingMonths(M, N) == (M - (N - 1))..M

\* the data without the rows outside the N months ending at its latest month
InWindow(R, N) == {r \in R : r.month \in TrailingMonths(last_month(R), N)}

\* C5: the rows that feed the N-month count and acceleration ratio (N = 6, 12,
\* 18) are exactly those of the N months M-(N-1)..M; the month N months before
\* M is left out, so dropping every row outside these months changes no count
\* and no ratio.  Stated for the cutoff windows of build_quarter_metrics and
\* build_supplier_pivot (M = latest month of the data) and the SQL windows
\* (M = month of the row).
C5_WindowIsNMonths ==
    /\ sheet.step = "quarter" =>
          \A v \in DOMAIN sheet.rows :
              /\ sheet.rows[v].cnt6  = Count2(InWindow(raw, 6), v, 6)
              /\ sheet.rows[v].cnt12 = Count2(InWindow(raw, 12), v, 12)
              /\ sheet.rows[v].cnt18 = Count2(InWindow(raw, 18), v, 18)
              /\ sheet.rows[v].acc6  = Acc2(InWindow(raw, 6), v, 6)
              /\ sheet.rows[v].acc12 = Acc2(InWindow(raw, 12), v, 12)
              /\ sheet.rows[v].acc18 = Acc2(InWindow(raw, 18), v, 18)
    /\ sheet.step = "supplier" =>
          \A v \in DOMAIN sheet.rows :
              /\ sheet.rows[v].cnt6  = Count3(InWindow(raw, 6), v, 6)
              /\ sheet.rows[v].cnt12 = Count3(InWindow(raw, 12), v, 12)
              /\ sheet.rows[v].cnt18 = Count3(InWindow(raw, 18), v, 18)
              /\ sheet.rows[v].acc6  = Acc3(InWindow(raw, 6), v, 6)
              /\ sheet.rows[v].acc12 = Acc3(InWindow(raw, 12), v, 12)
              /\ sheet.rows[v].acc18 = Acc3(InWindow(raw, 18), v, 18)
    /\ sheet.step = "sql" =>
          \A k \in DOMAIN sheet.rows :
              /\ sheet.rows[k].cnt6 = Cardinality(
                    {m \in TofuMonths3(raw, k[1]) : m \in TrailingMonths(k[2], 6)})
              /\ sheet.rows[k].cnt12 = Cardinality(
                    {m \in TofuMonths3(raw, k[1]) : m \in TrailingMonths(k[2], 12)})

\* the vendor's intake is in exactly three months, all inside the six months
\* ending at M, and it has no conversion in any month
ThreeIntakesNoConversion(R, v, M) ==
    /\ Cardinality(TofuMonths3(R, v)) = 3
    /\ TofuMonths3(R, v) \subseteq TrailingMonths(M, 6)
    /\ \A r \in RowsOf(R, v) : r.bofu = 0 /\ r.tofu >= 0

TwoRecentIntakesUnconverted(R, v, M) ==
    LET tm == {m \in TofuMonths3(R, v) : m <= M}
    IN  /\ \E m \in SupplierMonths(R, v) : m <= M /\ SupBofu(R, v, m) > 0
        /\ Cardinality(tm) >= 2
        /\ \A m \in Largest(tm, 2) : SupBofu(R, v, m) = 0

\* C7: a vendor with conversion history and no conversion in its two most
\* recent positive-intake months is tagged at-risk whatever its ratio is.
C7_AtRiskOverridesRatio ==
    /\ sheet.step = "supplier" =>
          \A v \in DOMAIN sheet.rows :
              TwoRecentIntakesUnconverted(raw, v, last_month(raw)) =>
                  /\ sheet.rows[v].bofu6 = "At-risk of Churn"
                  /\ sheet.rows[v].bofu12 = "At-risk of Churn"
                  /\ sheet.rows[v].bofu18 = "At-risk of Churn"
    /\ sheet.step = "sql" =>
          \A k \in DOMAIN sheet.rows :
              TwoRecentIntakesUnconverted(raw, k[1], k[2]) =>
                  sheet.rows[k].bofu6 = "At Risk" /\ sheet.rows[k].bofu12 = "At Risk"

\* the fiscal quarter of a month: <<fiscal year, quarter>>
FiscalPeriodOf(m) ==
    <<IF DateOf(m).month >= 4 THEN DateOf(m).year + 1 ELSE DateOf(m).year,
      FiscalQuarterOf(DateOf(m).month)>>

\* the tier the stated order gives
StatedTofuTier(R, v, cnt, hi, mid) ==
    IF TofuMonths3(R, v) # {}
       /\ FiscalPeriodOf(SetMin(TofuMonths3(R, v))) = FiscalPeriodOf(last_month(R))
    THEN "TOFU New"
    ELSE IF GeInt(cnt, hi) THEN "TOFU Regular"
    ELSE IF GeInt(cnt, mid) THEN "TOFU Medium"
    ELSE "TOFU Low"

\* C8: intake tier = New when the first positive-intake quarter is the latest
\* fiscal quarter, whatever the count; else Regular iff count >= high, Medium
\* iff mid <= count < high, Low otherwise (count 0 or missing, no first quarter).
C8_TofuTierOrder ==
    PySheet =>
        \A v \in DOMAIN sheet.rows :
            /\ sheet.rows[v].tofu18 = StatedTofuTier(raw, v, sheet.rows[v].cnt18, 13, 7)
            /\ sheet.rows[v].tofu12 = StatedTofuTier(raw, v, sheet.rows[v].cnt12, 9, 5)
            /\ sheet.rows[v].tofu6  = StatedTofuTier(raw, v, sheet.rows[v].cnt6, 5, 3)

\* tier names of the SQL and of tofu_cat brought to one vocabulary
TierName(l) ==
    IF l \in {"TOFU Regular", "Regular"} THEN "regular"
    ELSE IF l \in {"TOFU Medium", "Sporadic"} THEN "medium"
    ELSE IF l \in {"TOFU Low", "Low", "None"} THEN "low"
    ELSE "new"

\* C9: with high/mid = 9/5 for 12 months and 5/3 for 6 months everywhere, the
\* tofu_cat calls, the SQL of data_pull and the SQL of data_pull_new give the
\* same tier for every count (the first quarter being an older one).
C9_SameThresholdsEverywhere ==
    tin.first = "older" =>
        /\ (tout.py # <<>> /\ tout.sql # <<>>) =>
              /\ TierName(tout.py.w12) = TierName(tout.sql.w12)
              /\ TierName(tout.py.w6) = TierName(tout.sql.w6)
        /\ (tout.py # <<>> /\ tout.sqlnew # <<>>) =>
              /\ TierName(tout.py.w12) = TierName(tout.sqlnew.w12)
              /\ TierName(tout.py.w6) = TierName(tout.sqlnew.w6)
        /\ (tout.sql # <<>> /\ tout.sqlnew # <<>>) =>
              /\ TierName(tout.sql.w12) = TierName(tout.sqlnew.w12)
              /\ TierName(tout.sql.w6) = TierName(tout.sqlnew.w6)

\* months with conversion of one vendor
BofuMonths3(R, v) == {m \in SupplierMonths(R, v) : SupBofu(R, v, m) > 0}

\* the tier the stated order gives to a vendor with a first conversion quarter
StatedBofuTier(R, v, acc, given) ==
    IF FiscalPeriodOf(SetMin(BofuMonths3(R, v))) = FiscalPeriodOf(last_month(R))
    THEN given = "Txn New"
    ELSE IF GePct(acc, 80) THEN given = "Txn High"
    ELSE IF GePct(acc, 50) THEN given = "Txn Med"
    ELSE IF GtZero(acc) THEN given \in {"Churned >1 yr", "Churned <1 yr"}
    ELSE given = "Not Txn"

\* C10: for a vendor with a first conversion quarter: New when that quarter is
\* the latest fiscal quarter; else High iff ratio >= 0.8, Medium iff 0.5 <=
\* ratio < 0.8, the churn sub-policy iff 0 < ratio < 0.5, Not-transacted iff
\* the ratio is <= 0 or missing.
C10_BofuTierOrder ==
    sheet.step = "supplier" =>
        \A v \in DOMAIN sheet.rows :
            BofuMonths3(raw, v) # {} =>
                /\ StatedBofuTier(raw, v, sheet.rows[v].acc18, sheet.rows[v].bofu18)
                /\ StatedBofuTier(raw, v, sheet.rows[v].acc12, sheet.rows[v].bofu12)
                /\ StatedBofuTier(raw, v, sheet.rows[v].acc6, sheet.rows[v].bofu6)

\* the month of the vendor's most recent conversion
LastBofuMonth(R, v) == SetMax(BofuMonths3(R, v))

ChurnLabels == {"Churned >1 yr", "Churned <1 yr"}

\* C11: in the churn sub-policy the label is "Churned >1 yr" if and only if the
\* most recent conversion month is more than 12 calendar months before the
\* as-of month; exactly 12 months (or less) gives "Churned <1 yr".
C11_LongChurnOnlyBeyondTwelveMonths ==
    sheet.step = "supplier" =>
        \A v \in DOMAIN sheet.rows :
            \A l \in {sheet.rows[v].bofu18, sheet.rows[v].bofu12, sheet.rows[v].bofu6} :
                l \in ChurnLabels =>
                    (l = "Churned >1 yr" <=> last_month(raw) - LastBofuMonth(raw, v) > 12)

\* the label the stated rule gives a vendor that never converted
StatedNeverTransacted(R, v) ==
    IF TofuMonths3(R, v) # {} /\ SetMin(TofuMonths3(R, v)) >= last_month(R) - 8
    THEN "Not Txn - New TOFU"
    ELSE "Not Txn - Old TOFU"

\* C12: a vendor without any conversion is "Not Txn - New TOFU" exactly when
\* its first positive-intake month is at most 8 months before the as-of month,
\* and "Not Txn - Old TOFU" otherwise, also when it has no positive intake.
C12_NewTofuIffIntakeBeganWithinEightMonths ==
    sheet.step = "supplier" =>
        \A v \in DOMAIN sheet.rows :
            (BofuMonths3(raw, v) = {} /\ sheet.rows[v].bofu6 # RAISED) =>
                /\ sheet.rows[v].bofu6 = StatedNeverTransacted(raw, v)
                /\ sheet.rows[v].bofu12 = StatedNeverTransacted(raw, v)
                /\ sheet.rows[v].bofu18 = StatedNeverTransacted(raw, v)

\* months of a set of rows whose intake is a number greater than zero
PositiveIntakeMonths(rs) == {r.month : r \in {x \in rs : ~x.tofuNull /\ x.tofu > 0}}

\* the count the stated rule gives for the rows of a window, NaN without rows
StatedCount(rs) == IF rs = {} THEN Null ELSE Whole(Cardinality(PositiveIntakeMonths(rs)))

\* the rows of the months of a vendor that build_supplier_pivot keeps for N
WindowRows3(R, v, N) == {r \in RowsOf(R, v) : r.month \in WindowMonths3(R, v, N)}

\* C13: the trailing count of a window is the number of its months whose
\* intake is strictly greater than zero; months with a zero, a missing or a
\* negative intake are not counted.  Stated for build_quarter_metrics,
\* build_supplier_pivot and the SQL count_tofu columns, each on its own window.
C13_CountsOnlyPositiveMonths ==
    /\ sheet.step = "quarter" =>
          \A v \in DOMAIN sheet.rows :
              /\ sheet.rows[v].cnt6  = StatedCount(WindowRows2(raw, v, 6))
              /\ sheet.rows[v].cnt12 = StatedCount(WindowRows2(raw, v, 12))
              /\ sheet.rows[v].cnt18 = StatedCount(WindowRows2(raw, v, 18))
    /\ sheet.step = "supplier" =>
          \A v \in DOMAIN sheet.rows :
              /\ sheet.rows[v].cnt6  = StatedCount(WindowRows3(raw, v, 6))
              /\ sheet.rows[v].cnt12 = StatedCount(WindowRows3(raw, v, 12))
              /\ sheet.rows[v].cnt18 = StatedCount(WindowRows3(raw, v, 18))
    /\ sheet.step = "sql" =>
          \A k \in DOMAIN sheet.rows :
              /\ sheet.rows[k].cnt6 = Cardinality(PositiveIntakeMonths(
                    {r \in RowsOf(raw, k[1]) : r.month \in RangeMonths(raw, k[1], k[2], 5)}))
              /\ sheet.rows[k].cnt12 = Cardinality(PositiveIntakeMonths(
                    {r \in RowsOf(raw, k[1]) : r.month \in RangeMonths(raw, k[1], k[2], 11)}))

\* the conversion labels of a vendor without conversion in the window
LowestBofuLabels == {"Not Txn", "Not Txn - Old TOFU", "Not Txn - New TOFU"}

\* the ratio of a window with rows rs is 0 when its intake sum is 0
ZeroIntakeGivesZero(rs, acc) == (rs # {} /\ SumTofu(rs) = 0) => acc = Whole(0)

\* a window without rows leaves a ratio that is classified into the lowest tier
NoRowsGivesLowest(rs, label) == rs = {} => label \in LowestBofuLabels

\* C14: when the intake sum of a window is zero the acceleration ratio is
\* exactly 0, not infinity, NaN or an error, whether the conversion sum is zero
\* or positive; with no row in the window the ratio is classified into the
\* lowest tier.
C14_ZeroIntakeRatioIsZero ==
    /\ sheet.step = "quarter" =>
          \A v \in DOMAIN sheet.rows :
              /\ ZeroIntakeGivesZero(WindowRows2(raw, v, 6), sheet.rows[v].acc6)
              /\ ZeroIntakeGivesZero(WindowRows2(raw, v, 12), sheet.rows[v].acc12)
              /\ ZeroIntakeGivesZero(WindowRows2(raw, v, 18), sheet.rows[v].acc18)
              /\ NoRowsGivesLowest(WindowRows2(raw, v, 6), sheet.rows[v].bofu6)
              /\ NoRowsGivesLowest(WindowRows2(raw, v, 12), sheet.rows[v].bofu12)
              /\ NoRowsGivesLowest(WindowRows2(raw, v, 18), sheet.rows[v].bofu18)
    /\ sheet.step = "supplier" =>
          \A v \in DOMAIN sheet.rows :
              /\ ZeroIntakeGivesZero(WindowRows3(raw, v, 6), sheet.rows[v].acc6)
              /\ ZeroIntakeGivesZero(WindowRows3(raw, v, 12), sheet.rows[v].acc12)
              /\ ZeroIntakeGivesZero(WindowRows3(raw, v, 18), sheet.rows[v].acc18)
              /\ NoRowsGivesLowest(WindowRows3(raw, v, 6), sheet.rows[v].bofu6)
              /\ NoRowsGivesLowest(WindowRows3(raw, v, 12), sheet.rows[v].bofu12)
              /\ NoRowsGivesLowest(WindowRows3(raw, v, 18), sheet.rows[v].bofu18)

\* the six category columns of one row of the supplier sheet
Categories(row) == <<row.tofu18, row.tofu12, row.tofu6, row.bofu18, row.bofu12, row.bofu6>>

\* C15: the categories build_supplier_pivot gives a vendor depend on that
\* vendor's rows only: a dataset with the same rows for the vendor and other
\* rows for other vendors (here: none) gives the vendor the same categories.
C15_CategoriesDependOnOwnRowsOnly ==
    sheet.step = "supplier" =>
        \A v \in DOMAIN sheet.rows :
            Categories(sheet.rows[v]) = Categories(SupplierRow(RowsOf(raw, v), v))

----------------------------------------------------------------------------
(* Claims on the revenue share, continued                                  *)

\* the transaction's buyer is in no rule, or its buyer id is missing
UnmatchedBuyer(t) == t.bidNull \/ t.bid \notin RuleBuyerIds

\* C16: a buyer id of no rule, and a missing buyer id, give a revenue share of
\* exactly 0 and no error, whatever the other fields hold, in the SQL CASE and
\* in buyer_share.
C16_UnmatchedBuyerGivesZero ==
    UnmatchedBuyer(txn) =>
        /\ share.sqlDone => share.sql = Whole(0)
        /\ share.pyDone  => share.py = Whole(0)

\* buyer 99999 with a discount of 50,000: both implementations have returned 0
C16_Witness ==
    /\ ~txn.bidNull /\ txn.bid = 99999 /\ txn.ed = Whole(50)
    /\ share.sqlDone /\ share.pyDone
    /\ share.sql = Whole(0) /\ share.py = Whole(0)

\* the flat-percentage sets that the SQL CASE and the flats dict both hold:
\* <<rate, buyer ids>>
StatedFlats ==
    { <<Num(875, 10000), {448, 9916, 158109}>>,
      <<Num(95, 1000),   {586}>>,
      <<Num(10, 100),    {10963, 11326, 11, 246800, 275674}>>,
      <<Num(15, 100),    {24217, 136067, 4752, 154673}>>,
      <<Num(14, 100),    {22483, 199095}>>,
      <<Num(13, 100),    {368}>>,
      <<Num(18, 100),    {193694}>> }

\* C17: for a buyer of a flat-percentage set with rate p and a discount amount
\* D >= 0 the revenue share is exactly p x D, whatever APR, invoice amount and
\* days-advanced are (flat 10%, D = 50,000: 5,000); buyer 8933 is in a flat set
\* (20%) of buyer_share only.
C17_FlatShareIsRateTimesDiscount ==
    (~txn.bidNull /\ IsNum(txn.ed) /\ txn.ed.n >= 0) =>
        /\ \A f \in StatedFlats :
              txn.bid \in f[2] =>
                  /\ share.sqlDone => share.sql = RMul(f[1], txn.ed)
                  /\ share.pyDone  => share.py = RMul(f[1], txn.ed)
        /\ (txn.bid = 8933 /\ share.pyDone) => share.py = RMul(Num(20, 100), txn.ed)

\* buyer 10963 (flat 10%), discount 50 thousand: both implementations give 5
C17_Witness ==
    /\ ~txn.bidNull /\ txn.bid = 10963 /\ txn.ed = Whole(50)
    /\ txn.apr = Whole(20) /\ txn.amt = Whole(TierHigh)
    /\ share.sqlDone /\ share.pyDone
    /\ share.sql = Whole(5) /\ share.py = Whole(5)

\* C18: for buyer 2795 a transaction whose denominator date difference
\* (estimated due date minus clearance date) is zero days gives a revenue share
\* of zero or an undefined (null) value; the evaluation raises no
\* division-by-zero error.
C18_ZeroDateDifferenceDoesNotRaise ==
    (~txn.bidNull /\ txn.bid = 2795 /\ txn.estMinusCleared = Whole(0) /\ share.sqlDone) =>
        (share.sql = Whole(0) \/ IsNull(share.sql))

----------------------------------------------------------------------------
(* Claims on the workbook                                                  *)

SecondRun == sheet.prior.status # "none"

SameOutcome ==
    /\ sheet.status = sheet.prior.status
    /\ sheet.status = "ok" => sheet.rows = sheet.prior.rows

----------------------------------------------------------------------------
(* Claims on the company metrics                                           *)

\* the stated rule on the cells as given: an empty, absent or zero
\* borrowings cell gives no ratio
StatedCashRich(c) ==
    LET num(x) == IF IsNum(x) THEN x ELSE Whole(0)
        total  == RAdd(num(c.cash), num(c.invest))
        growth == IF c.growth = Missing THEN Whole(0) ELSE c.growth
    IN  \/ /\ IsNum(c.borr) /\ c.borr.n # 0
           /\ RLt(Whole(2), RQuot(total, c.borr))
           /\ IsNum(growth) /\ RLt(growth, Whole(15))
        \/ (c.rating.col /\ StartsWithAA(Upper(c.rating.text)))

\* C20: a company is flagged Cash-Rich iff ((cash + investments) / short-term
\* borrowings > 2 and revenue growth < 15) or its rating begins with "AA";
\* zero borrowings count as false; and the flag is computed without raising
\* when the dataset has no rating column.
C20_CashRichFlag ==
    enr.cash # UNSET =>
        /\ enr.cash # RAISED
        /\ enr.cash = "Cash-Rich" <=> StatedCashRich(co)

\* the fiscal-year position of a month: April is 0, March is 11
FyPosition(m) == (CalMonth(m) + 8) % 12

\* the months of the fiscal year after the latest observed month
StatedRemaining(S) == 11 - SetMax({FyPosition(r.month) : r \in S})

DepDone == enr.step = "dep" /\ enr.status = "ok"

\* C21: the full-year intake of a supplier is the observed sum plus the mean
\* observed month times the months remaining until March after the observed
\* months, so for non-negative intake it is never below the observed sum.
C21_ExtrapolationAddsRemainingMonths ==
    DepDone =>
        \A v \in DOMAIN enr.dep : \A f \in DOMAIN enr.dep[v].fy :
            LET S == FyGroup(ds, v, f)
            IN  CountCellsOf(S) > 0 =>
                  /\ enr.dep[v].fy[f] =
                        RAdd(SumCellsOf(S), RMul(MeanCellsOf(S), Whole(StatedRemaining(S))))
                  /\ RLe(SumCellsOf(S), enr.dep[v].fy[f])

\* the stated value of a turnover-range text
StatedSlabValue(t) ==
    IF t.k = "range" THEN Num(t.lo + t.hi, 2) ELSE Whole(t.lo)

\* C22: the annual revenue of a company is its Annual Revenue when present,
\* otherwise the value of its turnover range ("X to Y" gives (X+Y)/2, "X and
\* above" gives X), company by company, whatever the other companies hold.
C22_RevenueFallbackPerCompany ==
    DepDone =>
        \A v \in DOMAIN enr.dep :
            LET c == ds.comp[v]
            IN  /\ IsNum(c.annual) => enr.dep[v].revenue = c.annual
                /\ (~IsNum(c.annual) /\ c.slab.k \in {"range", "above"}) =>
                       enr.dep[v].revenue = StatedSlabValue(c.slab)

\* the band named by the stated rule
StatedBand(x) ==
    IF RLt(x, Whole(25)) THEN "<25"
    ELSE IF RLt(x, Whole(50)) THEN "25-50"
    ELSE IF RLt(x, Whole(75)) THEN "50-75"
    ELSE IF RLe(x, Whole(100)) THEN "75-100"
    ELSE ">100"

\* C23: every defined, non-negative dependency % gets exactly the band of its
\* name: "<25" below 25, "25-50" from 25, "50-75" from 50, "75-100" from 75 up
\* to and including 100, ">100" above 100; the dependency % is the
\* extrapolated intake of the latest fiscal year / annual revenue x 100.
C23_SlabMatchesItsName ==
    DepDone =>
        \A v \in DOMAIN enr.dep :
            LET d == enr.dep[v]
            IN  /\ d.pct = Round2(Times100(FloatDiv(d.fy[latest_fy(ds)], d.revenue)))
                /\ (IsNum(d.pct) /\ d.pct.n >= 0) => d.slab = StatedBand(d.pct)

\* the stated rate: finance cost % of the revenue over the total debt, in
\* percent, rounded; undefined without an input or with no debt
StatedRate(c) ==
    LET num(x) == IF x = Missing THEN Whole(0) ELSE x
        debt   == RAdd(num(c.borr), num(c.lborr))
    IN  IF ~IsNum(c.fin) \/ ~IsNum(c.annual) \/ ~IsNum(debt) \/ debt.n = 0 THEN Null
        ELSE Round2(RQuot(RMul(c.fin, c.annual), debt))

\* C24: the indicative rate is reported as its number iff the rounded rate r
\* has 7 <= r <= 14; for r < 7, r > 14, zero debt or a missing input the
\* value is the sentinel "DATA NA", never null, infinite or an error.
C24_RateReportedIffInBand ==
    enr.step = "rate" =>
        LET r == StatedRate(co)
        IN  IF IsNum(r) /\ RLe(Whole(7), r) /\ RLe(r, Whole(14))
            THEN enr.rate = NumStr(r)
            ELSE enr.rate = DataNA

C24_Witness ==
    /\ enr.step = "rate"
    /\ co.fin = Whole(14) /\ co.annual = Whole(1000) /\ co.borr = Whole(500) /\ co.lborr = Whole(500)
    /\ enr.rate = NumStr(Whole(14))

\* the stated class of a deviation that is a number
StatedClass(d) ==
    IF RLe(d, Whole(20)) THEN "good" ELSE IF RLe(d, Whole(50)) THEN "avg" ELSE "bad"

\* C25: a deviation d is Good iff d <= 20, Average iff 20 < d <= 50, Bad iff
\* d > 50, and excel_with_colours and the _cli loop give every cell value
\* the same class, undefined (NaN) deviations included.
C25_SameClassInBothColourings ==
    (enr.app # <<>> /\ enr.cli # <<>>) =>
        \A c \in DeviationColumns :
            /\ enr.app[c] = enr.cli[c]
            /\ IsNum(co[c]) => enr.app[c] = StatedClass(co[c])

RequiredColumns ==
    {"Month", "PAN", "TOFU (in lacs)", "Industry", "Short term borrowings",
     "Finance Cost (% of Sales)", "Annual Revenue"}

\* C26: when a required column (month, vendor tax ID, intake amount,
\* industry, short-term borrowings, finance cost, annual revenue) is absent
\* from the dataset, the call fails with an error naming a missing column;
\* none is silently replaced by a default.
C26_MissingColumnIsNamedFailure ==
    (enr.step = "all" /\ ds.absent \cap RequiredColumns # {} /\ "Rating" \notin ds.absent) =>
        /\ enr.dep.status = "raised"
        /\ enr.dep.error \in ds.absent

EnrichOk == enr.step = "all" /\ enr.dep.status = "ok"

\* C27: a successful enrich_dataframe call returns exactly one enriched row
\* per input row, also for rows with a "DATA NA" rate, an undefined
\* dependency % or an industry shared by many rows, and the caller's table
\* is left as it was.
C27_OneEnrichedRowPerInputRow ==
    EnrichOk =>
        /\ \A r \in ds.rows :
              Cardinality({o \in enr.dep.rows : o.pan = r.pan /\ o.month = r.month}) = 1
        /\ \A o \in enr.dep.rows : \E r \in ds.rows : o.pan = r.pan /\ o.month = r.month
        /\ enr.dep.caller = ds

C27_Witness ==
    /\ EnrichOk
    /\ Cardinality(ds.rows) = 2
    /\ ds.comp["V1"].ind = ds.comp["V2"].ind /\ ds.comp["V1"].cr # ds.comp["V2"].cr
    /\ \E o \in enr.dep.rows : o.pan = "V1" /\ o.rate = DataNA /\ ~IsNum(o.pct)
    /\ \E o \in enr.dep.rows : o.pan = "V2" /\ IsNum(o.dev)

----------------------------------------------------------------------------
(* Claims on the two implementations of the revenue share                  *)

\* C28: buyer_share applies the rules of the SQL CASE of RequestSummary: for
\* every buyer id and transaction both select the same formula with the
\* same parameters and give the same value before the clamp at zero.
C28_PythonShareEqualsSqlCase ==
    share.pyDone => share.py = SqlShareCase(txn)

----------------------------------------------------------------------------
(* Claims on calc_all.run and on the month pivot                           *)

IsPrefix(s, t) == Len(s) <= Len(t) /\ \A i \in 1..Len(s) : s[i] = t[i]

StepOrder == <<"month", "quarter", "supplier">>

RunInOrder ==
    /\ IsPrefix(run.log, Messages) /\ run.cb = run.log
    /\ IsPrefix(run.steps, StepOrder)
    /\ Len(run.steps) <= Len(run.log)
    /\ Len(run.log) = Len(Messages) => Len(run.steps) = Len(StepOrder)
    /\ run.pc = "done" => run.result = Messages

\* C29: run does month pivot, quarterly metrics, supplier pivot in this
\* order, each message is logged and passed to the callback before its step
\* starts, the final message comes after all three steps, and on a valid
\* base workbook every run eventually emits it and returns the four
\* messages in order.
C29_RunCompletesInOrder == []RunInOrder /\ <>(run.pc = "done")


\* the sum of a row's own monthly cells of one metric
OwnSum(cells) == SumPairs({<<m, cells[m]>> : m \in DOMAIN cells})

\* C30: in the "All Metrics Pivot" sheet every "Total Sum of m" is the sum
\* of the row's monthly columns of metric m alone; the monthly columns of
\* another metric do not contribute.
C30_TotalIsSumOfOwnMonths ==
    (sheet.step = "month" /\ sheet.status = "ok") =>
        \A v \in DOMAIN sheet.rows :
            /\ sheet.rows[v].totalTofu = OwnSum(sheet.rows[v].tofu)
            /\ sheet.rows[v].totalBofu = OwnSum(sheet.rows[v].bofu)
            /\ \A m \in DOMAIN sheet.rows[v].totalOther :
                  sheet.rows[v].totalOther[m] = OwnSum(sheet.rows[v].other[m])

====
